---------------------------- MODULE Spec2Model ----------------------------
(***************************************************************************)
(* Model of the chant counter's real-time matching core:                   *)
(*   Detection.startEnergyDetection / Detection.startPatternDetection      *)
(*   (src/detection.js) driven by animation frames, timers and the clock.  *)
(*                                                                         *)
(* Units.  Times are milliseconds (Date.now()).  RMS values are integers   *)
(* in units of 0.0001 (0.012 is 120).  Similarity scores and the           *)
(* similarity threshold are integers in units of 0.01 (0.75 is 75).        *)
(* A sample written to the sliding buffer is named by its 1-based write    *)
(* position in the session; 0 is the initial content of a Float32Array.    *)
(***************************************************************************)
EXTENDS Integers, Sequences, FiniteSets, TLC

VARIABLES
    clock,        \* Date.now()
    isListening,  \* value the polled isListening() predicate returns
    count,        \* number of onMatch calls received by the match sink
    lastScore,    \* score passed to the latest onMatch call, -1 before any
    loops,        \* the detector loops started so far (closures of detect)
    app,          \* the other fields of the MantraCounter object
    scorer,       \* the window, the navigator and the calls of computeSimilarity
    utils         \* a call of one of the AudioUtils functions and its result

vars == <<clock, isListening, count, lastScore, loops, app, scorer, utils>>

(***************************************************************************)
(* Bounds of the model.                                                    *)
(***************************************************************************)
StartTime == 1000
TickMs == 100
MaxTime == 2000

\* RMS of a frame, one value or more in every band of either device class
RmsLevels == {1, 10, 30, 100, 500}

\* pattern detector: frames per session, elapsed time, frame RMS, scores
MaxFrames == 170
PatternMaxTime == 300
PatternRmsLevels == {20, 60}
Scores == {74, 75, 100}
SettingsSet ==
    { [similarityThreshold |-> 75, debounceTime |-> 100, matchCooldown |-> 200],
      [similarityThreshold |-> 75, debounceTime |-> 200, matchCooldown |-> 100] }

\* ring buffer: template lengths, frame lengths and frames per session
MaxTemplateLen == 11
MaxFrameLen == 3
MaxRingFrames == 30

\* scenario A: milliseconds between two animation frames at about 60 Hz
FramePeriods == {16, 17}

\* application: detector loops and microphone requests per run, samples
\* recorded for a template, samples per frame, frames per pattern loop
MaxLoops == 2
MaxCaptures == 2
MaxRecord == 4
AppFrameLen == 2
AppMaxFrames == 3

\* counter: manual increments are taken while the count is below this
MaxCount == 2

Max(a, b) == IF a >= b THEN a ELSE b
Min(a, b) == IF a <= b THEN a ELSE b

(***************************************************************************)
(* Energy-based detector: Detection.startEnergyDetection                   *)
(***************************************************************************)
loudThreshold(isMobile) == IF isMobile THEN 80 ELSE 120
transitionThreshold(isMobile) == IF isMobile THEN 20 ELSE 30
silenceThreshold(isMobile) == IF isMobile THEN 8 ELSE 10

minChantDuration == 500
minSilenceDuration == 600
debounceTime == 800

\* the closure variables of startEnergyDetection before the first detect()
EnergyInit(isMobile) ==
    [ isMobile         |-> isMobile,
      rms              |-> 0,
      state            |-> "waiting",
      chantStartTime   |-> 0,
      silenceStartTime |-> 0,
      lastCountTime    |-> 0,
      hasHadLoudSound  |-> FALSE ]

\* variant: the debounce window is measured with the wrong constant
InDebounceShort(st, now) == now - st.lastCountTime < minChantDuration

\* now - lastCountTime < debounceTime
InDebounce(st, now) == now - st.lastCountTime < debounceTime

\* variant: the chant-duration test is left out
ChantCompletedAnyChant(st, silenceStart, now) ==
    /\ now - silenceStart >= minSilenceDuration
    /\ st.hasHadLoudSound

\* the three-part condition that completes a chant
ChantCompleted(st, silenceStart, now) ==
    LET silenceDuration == now - silenceStart
        chantDuration == IF silenceStart > 0
                         THEN silenceStart - st.chantStartTime
                         ELSE now - st.chantStartTime
    IN  /\ silenceDuration >= minSilenceDuration
        /\ chantDuration >= minChantDuration
        /\ st.hasHadLoudSound

\* variant: the early return of the debounce path forgets to reschedule
EnergyScheduleDropsDebounce(path) == IF path = "debounce" THEN 0 ELSE 1

\* variant: the silence timer is restarted by every quiet frame
SilenceStartAlwaysNow(st, now) == now

\* if (silenceStartTime === 0) { silenceStartTime = now; }
SilenceStart(st, now) == IF st.silenceStartTime = 0 THEN now ELSE st.silenceStartTime

\* number of requestAnimationFrame(detect) calls made by one energy step
EnergySchedule(path) == 1

\* variant: a moderately loud frame leaves the silence timer running
TransitionSilenceStartKept(st) == st.silenceStartTime

\* silenceStartTime = 0 of the branch rms > transitionThreshold
TransitionSilenceStart(st) == 0

\* variant: a frame between the silence and transition thresholds is
\* handled as a silent frame
AboveSilenceNever(st, rms) == FALSE

\* rms > silenceThreshold, tested at or below the transition threshold
AboveSilence(st, rms) == rms > silenceThreshold(st.isMobile)

\* variant: the loud flag survives the match
LoudAfterMatchKept(st) == st.hasHadLoudSound

\* hasHadLoudSound = false, after onMatch(1.0)
LoudAfterMatch(st) == FALSE

\* variant: entering 'chanting' does not stamp the start of the chant
ChantStartKept(st, now) == st.chantStartTime

\* chantStartTime = now
ChantStart(st, now) == now

\* body of detect() after the isListening() test, for the frame just read:
\* new closure state, whether onMatch was called, the score, steps scheduled
EnergyBody(st, rms, now) ==
    LET s0 == [st EXCEPT !.rms = rms] IN
    IF InDebounce(st, now)
    THEN [st |-> s0, emit |-> FALSE, score |-> 0, sched |-> EnergySchedule("debounce")]
    ELSE
    IF st.state = "waiting"
    THEN IF rms > loudThreshold(st.isMobile)
         THEN [st |-> [s0 EXCEPT !.state = "chanting",
                                 !.chantStartTime = ChantStart(st, now),
                                 !.silenceStartTime = 0,
                                 !.hasHadLoudSound = TRUE],
               emit |-> FALSE, score |-> 0, sched |-> EnergySchedule("normal")]
         ELSE [st |-> s0, emit |-> FALSE, score |-> 0, sched |-> EnergySchedule("normal")]
    ELSE \* state = "chanting"
    IF rms > loudThreshold(st.isMobile)
    THEN [st |-> [s0 EXCEPT !.silenceStartTime = 0, !.hasHadLoudSound = TRUE],
          emit |-> FALSE, score |-> 0, sched |-> EnergySchedule("normal")]
    ELSE IF rms > transitionThreshold(st.isMobile)
    THEN [st |-> [s0 EXCEPT !.silenceStartTime = TransitionSilenceStart(st)],
          emit |-> FALSE, score |-> 0, sched |-> EnergySchedule("normal")]
    ELSE
    LET silenceStart == SilenceStart(st, now)
        s1 == [s0 EXCEPT !.silenceStartTime = silenceStart]
    IN  IF AboveSilence(st, rms)
        THEN [st |-> s1, emit |-> FALSE, score |-> 0, sched |-> EnergySchedule("normal")]
        ELSE IF ChantCompleted(st, silenceStart, now)
             THEN [st |-> [s1 EXCEPT !.lastCountTime = now,
                                     !.state = "waiting",
                                     !.chantStartTime = 0,
                                     !.silenceStartTime = 0,
                                     !.hasHadLoudSound = LoudAfterMatch(st)],
                   emit |-> TRUE, score |-> 100, sched |-> EnergySchedule("normal")]
             ELSE [st |-> s1, emit |-> FALSE, score |-> 0, sched |-> EnergySchedule("normal")]

\* variant: the sink counts an event twice
OnMatchTwice(r) ==
    /\ count' = IF r.emit THEN count + 2 ELSE count
    /\ lastScore' = IF r.emit THEN r.score ELSE lastScore

\* the match sink: MantraCounter.onMatch counts the event and logs its score
OnMatch(r) ==
    /\ count' = IF r.emit THEN count + 1 ELSE count
    /\ lastScore' = IF r.emit THEN r.score ELSE lastScore

\* detect() of the energy loop i, called with a frame of RMS rms available
EnergyRun(i, rms) ==
    /\ i \in DOMAIN loops
    /\ loops[i].kind = "energy"
    /\ loops[i].pending > 0
    /\ IF ~isListening
       THEN /\ loops' = [loops EXCEPT ![i].pending = @ - 1]
            /\ UNCHANGED <<count, lastScore>>
       ELSE LET r == EnergyBody(loops[i].st, rms, clock) IN
            /\ loops' = [loops EXCEPT ![i].st = r.st,
                                      ![i].pending = @ - 1 + r.sched]
            /\ OnMatch(r)

\* one animation-frame callback of the energy loop i
EnergyDetectWith(i, rms) ==
    /\ EnergyRun(i, rms)
    /\ UNCHANGED <<clock, isListening, app, scorer, utils>>

EnergyDetect(i) == \E rms \in RmsLevels : EnergyDetectWith(i, rms)

\* the step of detect() at which onMatch(1.0) throws: the exception leaves
\* detect() before lastCountTime, state and the timers are assigned and
\* before requestAnimationFrame(detect)
EnergySinkFails(st, rms, now) ==
    [ st    |-> [st EXCEPT !.rms = rms, !.silenceStartTime = SilenceStart(st, now)],
      emit  |-> TRUE,
      score |-> 100,
      sched |-> 0 ]

\* one animation-frame callback of the energy loop i whose onMatch call throws
\* after this.count++
EnergyDetectSinkFails(i) ==
    /\ i \in DOMAIN loops
    /\ loops[i].kind = "energy"
    /\ loops[i].pending > 0
    /\ isListening
    /\ \E rms \in RmsLevels :
         /\ EnergyBody(loops[i].st, rms, clock).emit
         /\ LET r == EnergySinkFails(loops[i].st, rms, clock) IN
            /\ loops' = [loops EXCEPT ![i].st = r.st,
                                      ![i].pending = @ - 1 + r.sched]
            /\ OnMatch(r)
    /\ UNCHANGED <<clock, isListening, app, scorer, utils>>

(***************************************************************************)
(* Pattern detector: Detection.startPatternDetection                       *)
(***************************************************************************)
windowSamples(templateLen) == 2 * templateLen
minMatchStreak(isMobile) == IF isMobile THEN 6 ELSE 8
checkInterval == 10
minEnergyThreshold(isMobile) == IF isMobile THEN 20 ELSE 50

\* the closure variables of startPatternDetection before the first detect();
\* segment is the window extracted by the latest step, <<>> when that step
\* evaluated no similarity; timers holds the deadlines of the pending
\* setTimeout callbacks
PatternInit(isMobile, templateLen, frameLen, settings) ==
    [ isMobile      |-> isMobile,
      templateLen   |-> templateLen,
      frameLen      |-> frameLen,
      settings      |-> settings,
      slidingBuffer |-> [k \in 1..windowSamples(templateLen) |-> 0],
      bufferIndex   |-> 0,
      matchStreak   |-> 0,
      frameCount    |-> 0,
      lastMatchTime |-> 0,
      inCooldown    |-> FALSE,
      timers        |-> << >>,
      segment       |-> << >> ]

\* the frame read by getFloatTimeDomainData, each sample named by the
\* position it is about to be written at
FrameSamples(bufferIndex, frameLen) == [j \in 1..frameLen |-> bufferIndex + j]

\* for (i...) { slidingBuffer[bufferIndex % windowSamples] = dataArray[i]; bufferIndex++ }
RECURSIVE WriteSamples(_, _, _, _)
WriteSamples(buf, bufferIndex, data, w) ==
    IF data = << >> THEN buf
    ELSE WriteSamples([buf EXCEPT ![(bufferIndex % w) + 1] = Head(data)],
                      bufferIndex + 1, Tail(data), w)

\* variant: the window starts one sample early
SegmentIndexOffByOne(bufferIndex, templateLen, i, w) ==
    LET windowStart == bufferIndex - templateLen - 1 IN (windowStart + i + w) % w

\* idx = (windowStart + i + windowSamples) % windowSamples
SegmentIndex(bufferIndex, templateLen, i, w) ==
    LET windowStart == bufferIndex - templateLen IN (windowStart + i + w) % w

\* the segment of templateBuffer.length samples read back from the buffer
ExtractSegment(buf, bufferIndex, templateLen, w) ==
    [k \in 1..templateLen |-> buf[SegmentIndex(bufferIndex, templateLen, k - 1, w) + 1]]

\* variant: a flagged transition does not gate the check
IsCheckInTransition(frameCount, isMobile, rms, isTransitioning) ==
    /\ frameCount % checkInterval = 0
    /\ rms > minEnergyThreshold(isMobile)

\* frameCount % checkInterval === 0 && rms > minEnergyThreshold && !isTransitioning
IsCheck(frameCount, isMobile, rms, isTransitioning) ==
    /\ frameCount % checkInterval = 0
    /\ rms > minEnergyThreshold(isMobile)
    /\ ~isTransitioning

\* variant: the cooldown flag is never consulted
CooldownSkipsNever(st) == FALSE

\* if (inCooldown) { matchStreak = 0; requestAnimationFrame(detect); return; }
CooldownSkips(st) == st.inCooldown

\* similarity >= settings.similarityThreshold
ScorePasses(st, similarity) == similarity >= st.settings.similarityThreshold

\* variant: one passing check is enough
StreakReachedAtOnce(st, streak) == streak >= 1

\* matchStreak >= minMatchStreak
StreakReached(st, streak) == streak >= minMatchStreak(st.isMobile)

\* now - lastMatchTime > settings.debounceTime
DebouncePassed(st, now) == now - st.lastMatchTime > st.settings.debounceTime

\* variant: a failing check resets the streak
StreakDecayReset(streak) == 0

\* if (matchStreak > 0) { matchStreak = Math.max(0, matchStreak - 1); }
StreakDecay(streak) == IF streak > 0 THEN Max(0, streak - 1) ELSE streak

\* variant: the streak is kept when a match is emitted
StreakAfterMatchKept(streak) == streak

\* matchStreak = 0 after onMatch(similarity)
StreakAfterMatch(streak) == 0

\* number of requestAnimationFrame(detect) calls made by one pattern step
PatternSchedule(path) == 1

\* variant: the cooldown timer is due at once
CooldownDeadlineNow(st, now) == now

\* setTimeout(() => { inCooldown = false; }, settings.matchCooldown)
CooldownDeadline(st, now) == now + st.settings.matchCooldown

\* body of detect() after the isListening() test.  The frame is given by its
\* RMS, by whether the energy history flags a transition, and by the score
\* computeSimilarity gives the extracted window against the template.
PatternBody(st, rms, isTransitioning, similarity, now) ==
    LET w  == windowSamples(st.templateLen)
        s1 == [st EXCEPT
                 !.slidingBuffer = WriteSamples(st.slidingBuffer, st.bufferIndex,
                                     FrameSamples(st.bufferIndex, st.frameLen), w),
                 !.bufferIndex = @ + st.frameLen,
                 !.frameCount = @ + 1,
                 !.segment = << >>]
    IN
    IF ~IsCheck(s1.frameCount, st.isMobile, rms, isTransitioning)
    THEN [st |-> s1, emit |-> FALSE, score |-> 0, sched |-> PatternSchedule("normal")]
    ELSE
    IF CooldownSkips(st)
    THEN [st |-> [s1 EXCEPT !.matchStreak = 0],
          emit |-> FALSE, score |-> 0, sched |-> PatternSchedule("cooldown")]
    ELSE
    LET s2 == [s1 EXCEPT !.segment =
                 ExtractSegment(s1.slidingBuffer, s1.bufferIndex, st.templateLen, w)]
    IN
    IF ScorePasses(st, similarity)
    THEN LET streak == st.matchStreak + 1 IN
         IF StreakReached(st, streak) /\ DebouncePassed(st, now)
         THEN [st |-> [s2 EXCEPT !.lastMatchTime = now,
                                 !.matchStreak = StreakAfterMatch(streak),
                                 !.inCooldown = TRUE,
                                 !.timers = Append(@, CooldownDeadline(st, now))],
               emit |-> TRUE, score |-> similarity, sched |-> PatternSchedule("normal")]
         ELSE [st |-> [s2 EXCEPT !.matchStreak = streak],
               emit |-> FALSE, score |-> 0, sched |-> PatternSchedule("normal")]
    ELSE [st |-> [s2 EXCEPT !.matchStreak = StreakDecay(@)],
          emit |-> FALSE, score |-> 0, sched |-> PatternSchedule("normal")]

\* history of loop i: the number of checks that passed the threshold since
\* matchStreak was last 0, counted up to 8
PassRun(old, st, similarity) ==
    IF st.matchStreak = 0 THEN 0
    ELSE IF st.segment # << >> /\ similarity >= st.settings.similarityThreshold
         THEN Min(old + 1, 8)
         ELSE old

\* detect() of the pattern loop i, called with a frame available
PatternRun(i, rms, isTransitioning, similarity) ==
    /\ i \in DOMAIN loops
    /\ loops[i].kind = "pattern"
    /\ loops[i].pending > 0
    /\ IF ~isListening
       THEN /\ loops' = [loops EXCEPT ![i].pending = @ - 1]
            /\ UNCHANGED <<count, lastScore>>
       ELSE LET r == PatternBody(loops[i].st, rms, isTransitioning, similarity, clock) IN
            /\ loops' = [loops EXCEPT ![i].st = r.st,
                                      ![i].pending = @ - 1 + r.sched,
                                      ![i].passRun = PassRun(@, r.st, similarity)]
            /\ OnMatch(r)

\* one animation-frame callback of the pattern loop i
PatternDetectWith(i, rms, isTransitioning, similarity) ==
    /\ PatternRun(i, rms, isTransitioning, similarity)
    /\ UNCHANGED <<clock, isListening, app, scorer, utils>>

PatternDetect(i) ==
    /\ loops[i].kind = "pattern"
    /\ isListening => loops[i].st.frameCount < MaxFrames
    /\ \E rms \in PatternRmsLevels, tr \in BOOLEAN, sim \in Scores :
          PatternDetectWith(i, rms, tr, sim)

\* the step of detect() at which onMatch(similarity) throws: lastMatchTime
\* is assigned and matchStreak incremented, the exception leaves detect()
\* before the streak reset, the cooldown and requestAnimationFrame(detect)
PatternSinkFails(st, rms, isTransitioning, similarity, now) ==
    LET r == PatternBody(st, rms, isTransitioning, similarity, now) IN
    [ st    |-> [r.st EXCEPT !.matchStreak = st.matchStreak + 1,
                             !.inCooldown = st.inCooldown,
                             !.timers = st.timers],
      emit  |-> TRUE,
      score |-> similarity,
      sched |-> 0 ]

\* one animation-frame callback of the pattern loop i whose onMatch call
\* throws after this.count++
PatternDetectSinkFails(i) ==
    /\ i \in DOMAIN loops
    /\ loops[i].kind = "pattern"
    /\ loops[i].pending > 0
    /\ isListening
    /\ \E rms \in PatternRmsLevels, tr \in BOOLEAN, sim \in Scores :
         /\ PatternBody(loops[i].st, rms, tr, sim, clock).emit
         /\ LET r == PatternSinkFails(loops[i].st, rms, tr, sim, clock) IN
            /\ loops' = [loops EXCEPT ![i].st = r.st,
                                      ![i].pending = @ - 1 + r.sched,
                                      ![i].passRun = PassRun(@, r.st, sim)]
            /\ OnMatch(r)
    /\ UNCHANGED <<clock, isListening, app, scorer, utils>>

\* setTimeout(() => { inCooldown = false; }, settings.matchCooldown) fires
CooldownTimer(i) ==
    /\ i \in DOMAIN loops
    /\ loops[i].kind = "pattern"
    /\ \E k \in DOMAIN loops[i].st.timers :
         /\ clock >= loops[i].st.timers[k]
         /\ loops' = [loops EXCEPT
               ![i].st.inCooldown = FALSE,
               ![i].st.timers = SubSeq(@, 1, k - 1) \o SubSeq(@, k + 1, Len(@))]
    /\ UNCHANGED <<clock, isListening, count, lastScore, app, scorer, utils>>

(***************************************************************************)
(* Environment: the wall clock and the polled predicate                    *)
(***************************************************************************)
Tick ==
    /\ clock + TickMs <= StartTime + MaxTime
    /\ clock' = clock + TickMs
    /\ UNCHANGED <<isListening, count, lastScore, loops, app, scorer, utils>>

SetListening ==
    /\ isListening' = ~isListening
    /\ UNCHANGED <<clock, count, lastScore, loops, app, scorer, utils>>

(***************************************************************************)
(* A detector running alone, as started by startEnergyDetection or         *)
(* startPatternDetection; the first detect() call is its pending step      *)
(***************************************************************************)
NoApp == [buttonState |-> "stop"]

\* computeSimilarity has not been called
NoScorer == [calls |-> 0]

\* no AudioUtils function has been called
NoUtils == [fn |-> "none"]

EnergyLoop(isMobile) ==
    [kind |-> "energy", pending |-> 1, passRun |-> 0, st |-> EnergyInit(isMobile)]

PatternLoop(isMobile, templateLen, frameLen, settings) ==
    [kind |-> "pattern", pending |-> 1, passRun |-> 0,
     st |-> PatternInit(isMobile, templateLen, frameLen, settings)]

InitEnergy ==
    /\ clock = StartTime
    /\ scorer = NoScorer
    /\ utils = NoUtils
    /\ isListening \in BOOLEAN
    /\ count = 0
    /\ lastScore = -1
    /\ app = NoApp
    /\ \E m \in BOOLEAN : loops = << EnergyLoop(m) >>

TickEnergy == loops[1].kind = "energy" /\ Tick

NextEnergy ==
    \/ EnergyDetect(1)
    \/ TickEnergy
    \/ SetListening

SpecEnergy == InitEnergy /\ [][NextEnergy]_vars

InitPattern ==
    /\ clock = StartTime
    /\ scorer = NoScorer
    /\ utils = NoUtils
    /\ isListening \in BOOLEAN
    /\ count = 0
    /\ lastScore = -1
    /\ app = NoApp
    /\ \E m \in BOOLEAN, settings \in SettingsSet :
         loops = << PatternLoop(m, 2, 1, settings) >>

TickPattern ==
    /\ loops[1].kind = "pattern"
    /\ clock + TickMs <= StartTime + PatternMaxTime
    /\ Tick

NextPattern ==
    \/ PatternDetect(1)
    \/ CooldownTimer(1)
    \/ TickPattern
    \/ SetListening

SpecPattern == InitPattern /\ [][NextPattern]_vars

(***************************************************************************)
(* End-to-end scenario A: the energy detector is fed 600 ms of frames of    *)
(* RMS 0.05 and then 700 ms of frames of RMS 0.0001, one frame per          *)
(* animation tick                                                           *)
(***************************************************************************)
ScenarioARms(elapsed) == IF elapsed < 600 THEN 500 ELSE 1

InitScenarioA ==
    /\ clock = StartTime
    /\ scorer = NoScorer
    /\ utils = NoUtils
    /\ isListening = TRUE
    /\ count = 0
    /\ lastScore = -1
    /\ app = NoApp
    /\ \E m \in BOOLEAN : loops = << EnergyLoop(m) >>

ScenarioAFrame ==
    /\ clock - StartTime < 600 + 700
    /\ EnergyRun(1, ScenarioARms(clock - StartTime))
    /\ \E dt \in FramePeriods : clock' = clock + dt
    /\ UNCHANGED <<isListening, app, scorer, utils>>

SpecScenarioA == InitScenarioA /\ [][ScenarioAFrame]_vars

(***************************************************************************)
(* The pattern detector's sliding buffer, for template and frame lengths    *)
(* of every size                                                            *)
(***************************************************************************)
DefaultSettings ==
    [similarityThreshold |-> 75, debounceTime |-> 3000, matchCooldown |-> 4000]

InitRing ==
    /\ clock = StartTime
    /\ scorer = NoScorer
    /\ utils = NoUtils
    /\ isListening = TRUE
    /\ count = 0
    /\ lastScore = -1
    /\ app = NoApp
    /\ \E templateLen \in 1..MaxTemplateLen, frameLen \in 1..MaxFrameLen :
         loops = << PatternLoop(FALSE, templateLen, frameLen, DefaultSettings) >>

RingFrame ==
    /\ loops[1].st.frameCount < MaxRingFrames
    /\ PatternDetect(1)

SpecRing == InitRing /\ [][RingFrame]_vars

(***************************************************************************)
(* The application: MantraCounter and its main button                      *)
(*   audio  "none"    audioContext is null                                  *)
(*          "opening" audioContext exists, getUserMedia has not resolved,   *)
(*                    analyser is null                                      *)
(*          "open"    analyser exists                                       *)
(*   calls  the async calls suspended at await getUserMedia, each named by  *)
(*          the method that awaits initAudio                                *)
(***************************************************************************)
AppInit(mode, isMobile) ==
    [ buttonState         |-> IF mode = "energy" THEN "listening" ELSE "record",
      detectionMode       |-> mode,
      isMobile            |-> isMobile,
      audio               |-> "none",
      calls               |-> << >>,
      isRecordingTemplate |-> FALSE,
      audioBufferLen      |-> 0,
      templateLen         |-> 0,
      captures            |-> 0,
      resetShown          |-> FALSE,
      similarityThreshold |-> DefaultSettings.similarityThreshold,
      debounceTime        |-> DefaultSettings.debounceTime,
      matchCooldown       |-> DefaultSettings.matchCooldown ]

\* the object literal startListening passes to startPatternDetection
SessionSettings(a) ==
    [ similarityThreshold |-> a.similarityThreshold,
      debounceTime        |-> a.debounceTime,
      matchCooldown       |-> a.matchCooldown ]

\* stopListening(): the fields it assigns besides isListening
StopApp(a) == [a EXCEPT !.buttonState = "listening", !.audio = "none"]

\* startListening() after await initAudio() has returned, a being the
\* object's fields at that point; the detector's first detect() runs inside
ListenContinue(a) ==
    LET listening == [a EXCEPT !.buttonState = "stop"] IN
    IF a.detectionMode = "pattern" /\ a.templateLen = 0
    THEN /\ isListening' = FALSE
         /\ app' = StopApp(listening)
         /\ UNCHANGED <<loops, count, lastScore>>
    ELSE
    IF a.audio # "open"
    THEN \* analyser is null: startXDetection throws at analyser.fftSize
         /\ isListening' = TRUE
         /\ app' = listening
         /\ UNCHANGED <<loops, count, lastScore>>
    ELSE
    IF a.detectionMode = "energy"
    THEN \E rms \in RmsLevels :
         LET r == EnergyBody(EnergyInit(a.isMobile), rms, clock) IN
         /\ isListening' = TRUE
         /\ app' = listening
         /\ loops' = Append(loops, [kind |-> "energy", pending |-> r.sched,
                                    passRun |-> 0, st |-> r.st])
         /\ OnMatch(r)
    ELSE \E rms \in PatternRmsLevels, tr \in BOOLEAN, sim \in Scores :
         LET r == PatternBody(PatternInit(a.isMobile, a.templateLen, AppFrameLen,
                                          SessionSettings(a)),
                              rms, tr, sim, clock) IN
         /\ isListening' = TRUE
         /\ app' = listening
         /\ loops' = Append(loops, [kind |-> "pattern", pending |-> r.sched,
                                    passRun |-> PassRun(0, r.st, sim), st |-> r.st])
         /\ OnMatch(r)

\* startRecordingTemplate() after await initAudio() has returned; the first
\* capture() runs inside startCapturing()
RecordContinue(a) ==
    LET rec == [a EXCEPT !.isRecordingTemplate = TRUE,
                         !.audioBufferLen = 0,
                         !.buttonState = "confirm",
                         !.resetShown = FALSE] IN
    /\ app' = IF a.audio # "open"
              THEN rec   \* startCapturing throws at this.analyser.fftSize
              ELSE [rec EXCEPT !.audioBufferLen = AppFrameLen,
                               !.captures = @ + 1]
    /\ UNCHANGED <<isListening, loops, count, lastScore>>

\* the continuation of a call named kind
Continue(kind, a) ==
    IF kind = "listen" THEN ListenContinue(a) ELSE RecordContinue(a)

\* a method that starts with await this.initAudio() is called
CallWithAudio(kind) ==
    /\ kind = "listen" =>
         Len(loops) + Len(SelectSeq(app.calls, LAMBDA c : c = "listen")) < MaxLoops
    /\ kind = "record" =>
         app.captures + Len(SelectSeq(app.calls, LAMBDA c : c = "record")) < MaxCaptures
    /\ IF app.audio = "none"
       THEN /\ app' = [app EXCEPT !.audio = "opening", !.calls = Append(@, kind)]
            /\ UNCHANGED <<isListening, loops, count, lastScore>>
       ELSE Continue(kind, app)
    /\ UNCHANGED <<clock, scorer, utils>>

\* handleMainAction, case 'listening'
StartListening == app.buttonState = "listening" /\ CallWithAudio("listen")

\* handleMainAction, case 'record'
StartRecordingTemplate == app.buttonState = "record" /\ CallWithAudio("record")

\* the getUserMedia promise of the suspended call k resolves
GetUserMediaResolve(k) ==
    /\ k \in DOMAIN app.calls
    /\ LET rest == SubSeq(app.calls, 1, k - 1) \o SubSeq(app.calls, k + 1, Len(app.calls))
       IN IF app.audio = "none"
          THEN \* this.audioContext is null: initAudio throws
               /\ app' = [app EXCEPT !.calls = rest]
               /\ UNCHANGED <<isListening, loops, count, lastScore>>
          ELSE Continue(app.calls[k],
                        [app EXCEPT !.calls = rest, !.audio = "open"])
    /\ UNCHANGED <<clock, scorer, utils>>

\* the getUserMedia promise of the suspended call k is rejected
GetUserMediaReject(k) ==
    /\ k \in DOMAIN app.calls
    /\ app' = [app EXCEPT !.calls =
                 SubSeq(@, 1, k - 1) \o SubSeq(@, k + 1, Len(@))]
    /\ UNCHANGED <<clock, isListening, loops, count, lastScore, scorer, utils>>

\* one animation-frame callback of capture()
Capture ==
    /\ app.captures > 0
    /\ IF ~app.isRecordingTemplate /\ ~isListening
       THEN app' = [app EXCEPT !.captures = @ - 1]
       ELSE IF app.audio # "open"
       THEN app' = [app EXCEPT !.captures = @ - 1]   \* this.analyser is null
       ELSE IF app.isRecordingTemplate
       THEN /\ app.audioBufferLen + AppFrameLen <= MaxRecord
            /\ app' = [app EXCEPT !.audioBufferLen = @ + AppFrameLen]
       ELSE app' = app
    /\ UNCHANGED <<clock, isListening, loops, count, lastScore, scorer, utils>>

\* handleMainAction, case 'confirm'; trimSilence keeps a non-empty slice
ConfirmTemplate ==
    /\ app.buttonState = "confirm"
    /\ IF app.audioBufferLen = 0
       THEN app' = app
       ELSE IF app.audio = "none"
       THEN app' = [app EXCEPT !.isRecordingTemplate = FALSE]
       ELSE \E len \in 1..app.audioBufferLen :
              app' = [app EXCEPT !.isRecordingTemplate = FALSE,
                                 !.templateLen = len,
                                 !.buttonState = "listening",
                                 !.resetShown = TRUE]
    /\ UNCHANGED <<clock, isListening, loops, count, lastScore, scorer, utils>>

\* handleMainAction, case 'stop'
StopListening ==
    /\ app.buttonState = "stop"
    /\ isListening' = FALSE
    /\ app' = StopApp(app)
    /\ UNCHANGED <<clock, loops, count, lastScore, scorer, utils>>

\* the reset-mantra button, confirmed
ResetMantra ==
    /\ app.resetShown
    /\ isListening' = FALSE
    /\ app' = [StopApp(app) EXCEPT !.templateLen = 0,
                                   !.audioBufferLen = 0,
                                   !.buttonState = "record",
                                   !.resetShown = FALSE]
    /\ UNCHANGED <<clock, loops, count, lastScore, scorer, utils>>

\* the positions of the threshold, debounce and cooldown sliders
SliderValues ==
    [ similarityThreshold |-> {75, 100},
      debounceTime        |-> {100, 3000},
      matchCooldown       |-> {200, 4000} ]

\* variant: the running detectors read the slider's field of the object
SliderLoopsShared(ls, field, v) ==
    [i \in DOMAIN ls |->
       IF ls[i].kind = "pattern"
       THEN [ls[i] EXCEPT !.st.settings = [@ EXCEPT ![field] = v]]
       ELSE ls[i]]

\* what an 'input' event of a slider does to the detector loops: nothing
SliderLoops(ls, field, v) == ls

\* 'input' event of the threshold, debounce or cooldown slider
SetSlider(field, v) ==
    /\ app' = [app EXCEPT ![field] = v]
    /\ loops' = SliderLoops(loops, field, v)
    /\ UNCHANGED <<clock, isListening, count, lastScore, scorer, utils>>

AppPatternDetect(i) ==
    /\ i \in DOMAIN loops
    /\ loops[i].kind = "pattern"
    /\ isListening => loops[i].st.frameCount < AppMaxFrames
    /\ PatternDetect(i)

InitApp ==
    /\ clock = StartTime
    /\ scorer = NoScorer
    /\ utils = NoUtils
    /\ isListening = FALSE
    /\ count = 0
    /\ lastScore = -1
    /\ loops = << >>
    /\ \E mode \in {"energy", "pattern"}, m \in BOOLEAN : app = AppInit(mode, m)

NextApp ==
    \/ StartListening
    \/ StopListening
    \/ ResetMantra
    \/ StartRecordingTemplate
    \/ ConfirmTemplate
    \/ Capture
    \/ \E k \in 1..(MaxLoops + MaxCaptures) : GetUserMediaResolve(k)
    \/ \E k \in 1..(MaxLoops + MaxCaptures) : GetUserMediaReject(k)
    \/ \E i \in 1..MaxLoops : EnergyDetect(i)
    \/ \E i \in 1..MaxLoops : AppPatternDetect(i)

SpecApp == InitApp /\ [][NextApp]_vars

(***************************************************************************)
(* AudioUtils: the similarity scorer.                                      *)
(* An envelope is a sequence of naturals (RMS values as multiples of the   *)
(* smallest level).  Sums and products are exact and a quotient is kept    *)
(* as a pair [num, den] of integers.  Math.sqrt returns the square root    *)
(* rounded to the nearest number of SqrtBits significant bits (53 in the   *)
(* code).                                                                  *)
(***************************************************************************)
Levels == {0, 1, 5}
EnvLens == {0, 2, 3, 4}
Envelopes == UNION { [1..n -> Levels] : n \in EnvLens }
SqrtBits == 14
MaxCalls == 2

Frac(n, d) == [num |-> n, den |-> d]

\* a / b <= c / d for a, c >= 0 and b, d > 0, by the continued fractions of
\* the two sides, so that no product is formed
RECURSIVE LeqFrac(_, _, _, _)
LeqFrac(a, b, c, d) ==
    IF a \div b # c \div d THEN a \div b < c \div d
    ELSE IF a % b = 0 THEN TRUE
    ELSE IF c % d = 0 THEN FALSE
    ELSE LeqFrac(d, c % d, b, a % b)

RECURSIVE SumTo(_, _)
SumTo(f, n) == IF n = 0 THEN 0 ELSE f[n] + SumTo(f, n - 1)

\* the largest integer whose square is at most n, between lo and hi
RECURSIVE IsqrtIn(_, _, _)
IsqrtIn(n, lo, hi) ==
    IF lo = hi THEN lo
    ELSE LET mid == (lo + hi + 1) \div 2 IN
         IF mid * mid <= n THEN IsqrtIn(n, mid, hi) ELSE IsqrtIn(n, lo, mid - 1)

\* the largest e with n * 4^e < 4^SqrtBits
RECURSIVE Exponent(_, _)
Exponent(n, e) ==
    IF n < (4 ^ SqrtBits) \div 4 THEN Exponent(n * 4, e + 1) ELSE e

\* Math.sqrt(n): the value m / 2^e, m being sqrt(n) * 2^e rounded to nearest
MathSqrt(n) ==
    IF n = 0 THEN [m |-> 0, e |-> 0]
    ELSE LET e == Exponent(n, 0)
             x == n * (4 ^ e)
             r == IsqrtIn(x, 0, 2 ^ SqrtBits)
         IN  [m |-> IF x - r * r > r THEN r + 1 ELSE r, e |-> e]

\* isMobileDevice(): the user agent, or a narrow window with touch events
isMobileDevice(env) == env.uaMobile \/ (env.narrow /\ env.touch)

\* the value of an arithmetic expression of which an operand is undefined or
\* is 0 * Infinity
NaN == -1

\* the factor by which the elements of a resampled sequence are multiplied
ResampleScale(targetLength) == IF targetLength = 1 THEN 1 ELSE targetLength - 1

\* resample(arr, targetLength) by linear interpolation; the result is given
\* multiplied by ResampleScale(targetLength), which makes every element an
\* integer.  With targetLength = 1 the ratio is infinite and srcIdx is NaN;
\* with an empty arr every arr[lower] is undefined.
resample(arr, targetLength) ==
    IF Len(arr) = targetLength
    THEN [k \in 1..targetLength |-> arr[k] * ResampleScale(targetLength)]
    ELSE IF targetLength = 1 \/ Len(arr) = 0
    THEN [k \in 1..targetLength |-> NaN]
    ELSE
    [k \in 1..targetLength |->
       LET pos   == (k - 1) * (Len(arr) - 1)
           lower == pos \div (targetLength - 1)
           rem   == pos % (targetLength - 1)
           upper == Min(IF rem = 0 THEN lower ELSE lower + 1, Len(arr) - 1)
       IN  arr[lower + 1] * ((targetLength - 1) - rem) + arr[upper + 1] * rem]

\* Math.max(...arr) and Math.min(...arr) of a non-empty arr
ArrMax(arr) ==
    CHOOSE x \in {arr[k] : k \in DOMAIN arr} :
      \A y \in {arr[k] : k \in DOMAIN arr} : y <= x

ArrMin(arr) ==
    CHOOSE x \in {arr[k] : k \in DOMAIN arr} :
      \A y \in {arr[k] : k \in DOMAIN arr} : x <= y

normalizeUnguarded(arr) ==
    LET min   == ArrMin(arr)
        range == ArrMax(arr) - min
    IN  [k \in DOMAIN arr |-> Frac(arr[k] - min, range)]

\* normalize(arr): all 0 when the range is 0, else (x - min) / range, each
\* value as the pair [num, den]; a pair with den = 0 is NaN or Infinity
normalize(arr) ==
    LET min   == ArrMin(arr)
        range == ArrMax(arr) - min
    IN  [k \in DOMAIN arr |->
           IF range = 0 THEN Frac(0, 1) ELSE Frac(arr[k] - min, range)]

\* the numerators of values that have one denominator
Numerators(arr) == [k \in DOMAIN arr |-> arr[k].num]

\* dotProduct / (Math.sqrt(normA) * Math.sqrt(normB)), 0 when that is 0
Cosine(a, b) ==
    LET dotProduct == SumTo([k \in DOMAIN a |-> a[k] * b[k]], Len(a))
        normA == SumTo([k \in DOMAIN a |-> a[k] * a[k]], Len(a))
        normB == SumTo([k \in DOMAIN b |-> b[k] * b[k]], Len(b))
        sa == MathSqrt(normA)
        sb == MathSqrt(normB)
    IN  IF sa.m * sb.m = 0 THEN Frac(0, 1)
        ELSE Frac(dotProduct * (2 ^ (sa.e + sb.e)), sa.m * sb.m)

targetLen == 50

\* variant: the envelopes are normalized before the cosine is taken
cosineSimilarityNormalized(envelope1, envelope2) ==
    Cosine(Numerators(normalize(resample(envelope1, targetLen))),
           Numerators(normalize(resample(envelope2, targetLen))))

\* cosineSimilarity(envelope1, envelope2)
cosineSimilarity(envelope1, envelope2) ==
    Cosine(resample(envelope1, targetLen), resample(envelope2, targetLen))

\* variant: one gate for every device
energyGateThresholdSame(isMobile) == Frac(3, 10)

\* isMobile ? 0.25 : 0.3
energyGateThreshold(isMobile) == IF isMobile THEN Frac(1, 4) ELSE Frac(3, 10)

\* variant: two windows are taken to be enough
TooShortBelowTwo(len1, len2) == len1 < 2 \/ len2 < 2

\* len1 < 3 || len2 < 3
TooShort(len1, len2) == len1 < 3 \/ len2 < 3

\* variant: the ratio of the first mean to the larger one
EnergyRatioOfFirst(sum1, len1, sum2, len2) ==
    LET x1 == sum1 * len2
        x2 == sum2 * len1
    IN  IF x2 = 0 THEN Frac(0, 1) ELSE Frac(x1, Max(x1, x2))

\* Math.min(energy1, energy2) / Math.max(energy1, energy2 || 0.001), the two
\* means being sum1 / len1 and sum2 / len2
EnergyRatio(sum1, len1, sum2, len2) ==
    LET x1 == sum1 * len2
        x2 == sum2 * len1
    IN  IF x2 = 0 THEN Frac(0, 1) ELSE Frac(Min(x1, x2), Max(x1, x2))

\* computeSimilarity(envelope1, envelope2, true) where isMobileDevice()
\* returns isMobile.  similarity is the product of the fractions a and b.
computeSimilarity(envelope1, envelope2, isMobile) ==
    LET len1 == Len(envelope1)
        len2 == Len(envelope2)
    IN
    IF TooShort(len1, len2)
    THEN [similarity |-> [a |-> Frac(0, 1), b |-> Frac(1, 1)],
          error |-> "Audio too short"]
    ELSE
    LET cosine == cosineSimilarity(envelope1, envelope2)
        energyRatio == EnergyRatio(SumTo(envelope1, len1), len1,
                                   SumTo(envelope2, len2), len2)
        gate == energyGateThreshold(isMobile)
    IN  [similarity |->
           IF energyRatio.num * gate.den < gate.num * energyRatio.den
           THEN [a |-> energyRatio, b |-> Frac(1, 1)]
           ELSE [a |-> cosine,
                 b |-> Frac(7 * energyRatio.den + 3 * energyRatio.num,
                            10 * energyRatio.den)],
         cosine |-> cosine,
         energyRatio |-> energyRatio,
         error |-> ""]

\* score <= p / q and score >= p / q for a similarity score = a * b
ScoreLeq(score, p, q) ==
    \/ score.b.num = 0
    \/ LeqFrac(score.a.num, score.a.den, p * score.b.den, q * score.b.num)

ScoreGeq(score, p, q) ==
    IF score.b.num = 0 THEN p = 0
    ELSE LeqFrac(p * score.b.den, q * score.b.num, score.a.num, score.a.den)

(***************************************************************************)
(* The scorer called with a pair of envelopes, in a window that may be      *)
(* resized between two calls                                                *)
(***************************************************************************)
InitScorer ==
    /\ clock = StartTime
    /\ isListening = FALSE
    /\ count = 0
    /\ lastScore = -1
    /\ loops = << >>
    /\ app = NoApp
    /\ utils = NoUtils
    /\ \E ua \in BOOLEAN, touch \in BOOLEAN, narrow \in BOOLEAN,
          e1 \in Envelopes, e2 \in Envelopes :
         scorer = [ uaMobile  |-> ua,
                    touch     |-> touch,
                    narrow    |-> narrow,
                    envelope1 |-> e1,
                    envelope2 |-> e2,
                    calls     |-> 0,
                    first     |-> [error |-> "none"],
                    last      |-> [error |-> "none"] ]

\* AudioUtils.computeSimilarity(envelope1, envelope2) is called
CallComputeSimilarity ==
    /\ scorer.calls < MaxCalls
    /\ LET result == computeSimilarity(scorer.envelope1, scorer.envelope2,
                                       isMobileDevice(scorer))
       IN  scorer' = [scorer EXCEPT !.calls = @ + 1,
                                    !.last = result,
                                    !.first = IF scorer.calls = 0 THEN result ELSE @]
    /\ UNCHANGED <<clock, isListening, count, lastScore, loops, app, utils>>

\* the window is resized across the 768 px limit of isMobileDevice()
Resize ==
    /\ scorer' = [scorer EXCEPT !.narrow = ~@]
    /\ UNCHANGED <<clock, isListening, count, lastScore, loops, app, utils>>

NextScorer ==
    \/ CallComputeSimilarity
    \/ Resize

SpecScorer == InitScorer /\ [][NextScorer]_vars

(***************************************************************************)
(* AudioUtils.trimSilence.                                                 *)
(* A buffer is given by its number of samples and by the RMS of each of    *)
(* its windows of windowSize samples (the last one may be shorter), in     *)
(* units of 0.0001.  A slice of the buffer is given by the positions       *)
(* [from, to) of its samples in the buffer.  A duration is the pair        *)
(* [num, den] of a number of samples and the sample rate.                  *)
(***************************************************************************)
windowSize == 1024
defaultThreshold == 200

BufferLengths == {0, 1, 1024, 1025, 2048, 3000, 3072, 4096, 5000}
RmsValues == {100, 200, 300}
SampleRates == {44100, 48000}

\* number of windows the loop at i = 0, windowSize, ... goes through
WindowCount(length) == (length + windowSize - 1) \div windowSize

Buffers ==
    UNION { { [length |-> n, rms |-> r] : r \in [1..WindowCount(n) -> RmsValues] } :
            n \in BufferLengths }

\* rmsValues[k].index of the k-th window, k = 1, 2, ...
WindowIndex(k) == (k - 1) * windowSize

\* Float32Array.prototype.slice(start, end) for 0 <= start
Slice(length, start, end) ==
    [from |-> Min(start, length), to |-> Max(Min(start, length), Min(end, length))]

SliceLength(s) == s.to - s.from

\* the windows whose RMS is above the threshold
Above(audioData, threshold) ==
    {k \in 1..WindowCount(audioData.length) : audioData.rms[k] > threshold}

\* variant: the scan for the first window runs from the end
FirstOfBackwards(S) == CHOOSE k \in S : \A j \in S : j <= k

\* the window at which the forward scan breaks
FirstOf(S) == CHOOSE k \in S : \A j \in S : k <= j

\* the window at which the backward scan breaks
LastOf(S) == CHOOSE k \in S : \A j \in S : j <= k

TrimStartAtWindow(index) == index

\* startIndex for the first window above the threshold
TrimStart(index) == Max(0, index - windowSize)

TrimEndAtWindow(length, index) == Min(length, index)

\* endIndex for the last window above the threshold
TrimEnd(length, index) == Min(length, index + windowSize * 2)

NoWindowAboveEmpty(length) == [startIndex |-> 0, endIndex |-> 0]

\* startIndex and endIndex as initialised, kept when no window is above
NoWindowAbove(length) == [startIndex |-> 0, endIndex |-> length]

trimSilence(audioData, sampleRate, threshold) ==
    LET above      == Above(audioData, threshold)
        init       == NoWindowAbove(audioData.length)
        startIndex == IF above = {} THEN init.startIndex
                      ELSE TrimStart(WindowIndex(FirstOf(above)))
        endIndex   == IF above = {} THEN init.endIndex
                      ELSE TrimEnd(audioData.length, WindowIndex(LastOf(above)))
        trimmed    == Slice(audioData.length, startIndex, endIndex)
    IN  [ data             |-> trimmed,
          originalDuration |-> Frac(audioData.length, sampleRate),
          trimmedDuration  |-> Frac(SliceLength(trimmed), sampleRate),
          silenceRemoved   |-> Frac(audioData.length - SliceLength(trimmed), sampleRate) ]

InitTrimmer ==
    /\ clock = StartTime
    /\ isListening = FALSE
    /\ count = 0
    /\ lastScore = -1
    /\ loops = << >>
    /\ app = NoApp
    /\ scorer = NoScorer
    /\ \E b \in Buffers, rate \in SampleRates :
         utils = [fn |-> "none", audioData |-> b, sampleRate |-> rate]

\* AudioUtils.trimSilence(audioData, sampleRate) is called
CallTrimSilence ==
    /\ utils.fn = "none"
    /\ utils' = [utils EXCEPT !.fn = "trimSilence"] @@
                [result |-> trimSilence(utils.audioData, utils.sampleRate,
                                        defaultThreshold)]
    /\ UNCHANGED <<clock, isListening, count, lastScore, loops, app, scorer>>

NextTrimmer == CallTrimSilence

SpecTrimmer == InitTrimmer /\ [][NextTrimmer]_vars

(***************************************************************************)
(* AudioUtils.extractEnvelope.                                             *)
(* A buffer is a sequence of integer samples.  An envelope value is given  *)
(* by the mean square [num, den] it is the square root of: num is the sum  *)
(* of the squares of the samples of the window, den their number.          *)
(***************************************************************************)
MaxSamples == 5
SampleValues == {-2, 0, 1}
WindowSizes == {1, 2, 3}
SampleBuffers == UNION { [1..n -> SampleValues] : n \in 0..MaxSamples }

\* slice.reduce((sum, x) => sum + x * x, 0) over the samples lo+1 .. hi
RECURSIVE SumSquares(_, _, _)
SumSquares(audioData, lo, hi) ==
    IF hi <= lo THEN 0
    ELSE audioData[hi] * audioData[hi] + SumSquares(audioData, lo, hi - 1)

SliceEndUnclamped(length, i, size) == i + size

\* end of audioData.slice(i, Math.min(i + windowSize, audioData.length))
SliceEnd(length, i, size) == Min(i + size, length)

extractEnvelope(audioData, size) ==
    [k \in 1..((Len(audioData) + size - 1) \div size) |->
       LET i   == (k - 1) * size
           end == SliceEnd(Len(audioData), i, size)
       IN  Frac(SumSquares(audioData, i, Min(end, Len(audioData))), end - i)]

InitEnvelope ==
    /\ clock = StartTime
    /\ isListening = FALSE
    /\ count = 0
    /\ lastScore = -1
    /\ loops = << >>
    /\ app = NoApp
    /\ scorer = NoScorer
    /\ \E b \in SampleBuffers, size \in WindowSizes :
         utils = [fn |-> "none", audioData |-> b, windowSize |-> size]

\* AudioUtils.extractEnvelope(audioData, windowSize) is called
CallExtractEnvelope ==
    /\ utils.fn = "none"
    /\ utils' = [utils EXCEPT !.fn = "extractEnvelope"] @@
                [result |-> extractEnvelope(utils.audioData, utils.windowSize)]
    /\ UNCHANGED <<clock, isListening, count, lastScore, loops, app, scorer>>

NextEnvelope == CallExtractEnvelope

SpecEnvelope == InitEnvelope /\ [][NextEnvelope]_vars

(***************************************************************************)
(* AudioUtils.resample and AudioUtils.normalize called with a sequence of  *)
(* levels                                                                  *)
(***************************************************************************)
MaxSeqLen == 4
MaxTargetLength == 5
Seqs == UNION { [1..n -> Levels] : n \in 1..MaxSeqLen }

InitResample ==
    /\ clock = StartTime
    /\ isListening = FALSE
    /\ count = 0
    /\ lastScore = -1
    /\ loops = << >>
    /\ app = NoApp
    /\ scorer = NoScorer
    /\ \E seq \in Seqs, len \in 1..MaxTargetLength :
         utils = [fn |-> "none", arr |-> seq, targetLength |-> len]

\* AudioUtils.resample(arr, targetLength) is called
CallResample ==
    /\ utils.fn = "none"
    /\ utils' = [utils EXCEPT !.fn = "resample"] @@
                [result |-> resample(utils.arr, utils.targetLength)]
    /\ UNCHANGED <<clock, isListening, count, lastScore, loops, app, scorer>>

NextResample == CallResample

SpecResample == InitResample /\ [][NextResample]_vars

InitNormalize ==
    /\ clock = StartTime
    /\ isListening = FALSE
    /\ count = 0
    /\ lastScore = -1
    /\ loops = << >>
    /\ app = NoApp
    /\ scorer = NoScorer
    /\ \E seq \in Seqs \cup {<< >>} : utils = [fn |-> "none", arr |-> seq]

\* AudioUtils.normalize(arr) is called
CallNormalize ==
    /\ utils.fn = "none"
    /\ utils' = [utils EXCEPT !.fn = "normalize"] @@ [result |-> normalize(utils.arr)]
    /\ UNCHANGED <<clock, isListening, count, lastScore, loops, app, scorer>>

NextNormalize == CallNormalize

SpecNormalize == InitNormalize /\ [][NextNormalize]_vars

(***************************************************************************)
(* The template of MantraCounter: templateBuffer and templateEnvelope.     *)
(* The recording this.audioBuffer is given by the RMS of each of its       *)
(* windows of windowSize samples, every sample of a window having that     *)
(* magnitude; a captured frame is fftSize = 2048 samples, which is two     *)
(* windows.  The handlers that start and stop listening write neither the  *)
(* recording nor the template and are left out; what stopListening does    *)
(* to the audio context is part of ResetTemplate.                          *)
(*   audio  "none"    audioContext is null                                 *)
(*          "opening" audioContext exists, this.analyser is still null     *)
(*          "open"    this.analyser exists                                 *)
(***************************************************************************)
MaxRecFrames == 2
fftSize == 2048
FrameRms == {100, 300}
TestRepetitions == 5
Null == [null |-> TRUE]

\* the windows of one frame delivered by getFloatTimeDomainData
Frames == [1..(fftSize \div windowSize) -> FrameRms]

\* new Float32Array(this.audioBuffer)
RawBuffer(audioBuffer) ==
    [length |-> Len(audioBuffer) * windowSize, rms |-> audioBuffer]

\* the samples of a slice that starts at a window boundary
SliceData(audioData, s) ==
    [length |-> s.to - s.from,
     rms    |-> SubSeq(audioData.rms, s.from \div windowSize + 1,
                       WindowCount(s.to))]

\* extractEnvelope(buffer) for a buffer given by the RMS of its windows
EnvelopeOf(buffer) == [values |-> buffer.rms]

TemplateOfRaw(rawBuffer, sampleRate) ==
    [templateBuffer   |-> SliceData(rawBuffer,
                            trimSilence(rawBuffer, sampleRate, defaultThreshold).data),
     templateEnvelope |-> EnvelopeOf(rawBuffer)]

\* templateBuffer and templateEnvelope as confirmTemplate and runTest
\* assign them
TemplateOf(rawBuffer, sampleRate) ==
    LET trimmed == trimSilence(rawBuffer, sampleRate, defaultThreshold)
        buffer  == SliceData(rawBuffer, trimmed.data)
    IN  [templateBuffer |-> buffer, templateEnvelope |-> EnvelopeOf(buffer)]

TemplateInit ==
    [ buttonState         |-> "record",
      audio               |-> "none",
      pending             |-> 0,
      sampleRate          |-> 48000,
      isRecordingTemplate |-> FALSE,
      capturing           |-> FALSE,
      audioBuffer         |-> << >>,
      templateBuffer      |-> Null,
      templateEnvelope    |-> Null,
      resetShown          |-> FALSE,
      testStep            |-> -1,
      testRecording       |-> FALSE ]

InitTemplate ==
    /\ clock = StartTime
    /\ isListening = FALSE
    /\ count = 0
    /\ lastScore = -1
    /\ loops = << >>
    /\ scorer = NoScorer
    /\ utils = NoUtils
    /\ app = TemplateInit

\* startRecordingTemplate() after await initAudio() has returned;
\* startCapturing throws at this.analyser.fftSize when the analyser is null,
\* and otherwise runs capture() once
TemplateRecordContinue(a) ==
    LET rec == [a EXCEPT !.isRecordingTemplate = TRUE,
                         !.audioBuffer = << >>,
                         !.buttonState = "confirm",
                         !.resetShown = FALSE]
    IN  IF a.audio # "open" THEN app' = rec
        ELSE \E frame \in Frames :
               app' = [rec EXCEPT !.audioBuffer = frame, !.capturing = TRUE]

\* handleMainAction, case 'record'
TemplateRecord ==
    /\ app.buttonState = "record"
    /\ app.pending < MaxCaptures
    /\ IF app.audio = "none"
       THEN app' = [app EXCEPT !.audio = "opening", !.pending = @ + 1]
       ELSE TemplateRecordContinue(app)
    /\ UNCHANGED <<clock, isListening, count, lastScore, loops, scorer, utils>>

\* the getUserMedia promise of a suspended startRecordingTemplate resolves
TemplateMediaResolve ==
    /\ app.pending > 0
    /\ IF app.audio = "none"
       THEN app' = [app EXCEPT !.pending = @ - 1]   \* initAudio throws
       ELSE TemplateRecordContinue([app EXCEPT !.pending = @ - 1, !.audio = "open"])
    /\ UNCHANGED <<clock, isListening, count, lastScore, loops, scorer, utils>>

\* the getUserMedia promise of a suspended startRecordingTemplate is rejected
TemplateMediaReject ==
    /\ app.pending > 0
    /\ app' = [app EXCEPT !.pending = @ - 1]
    /\ UNCHANGED <<clock, isListening, count, lastScore, loops, scorer, utils>>

\* one animation-frame callback of capture()
TemplateCapture ==
    /\ app.capturing
    /\ IF ~app.isRecordingTemplate \/ app.audio # "open"
       THEN app' = [app EXCEPT !.capturing = FALSE]
       ELSE /\ Len(app.audioBuffer) < MaxRecFrames * (fftSize \div windowSize)
            /\ \E frame \in Frames :
                 app' = [app EXCEPT !.audioBuffer = @ \o frame]
    /\ UNCHANGED <<clock, isListening, count, lastScore, loops, scorer, utils>>

\* handleMainAction, case 'confirm'
TemplateConfirm ==
    /\ app.buttonState = "confirm"
    /\ IF app.audioBuffer = << >>
       THEN app' = app
       ELSE IF app.audio = "none"
       THEN app' = [app EXCEPT !.isRecordingTemplate = FALSE]
       ELSE LET t == TemplateOf(RawBuffer(app.audioBuffer), app.sampleRate)
            IN  app' = [app EXCEPT !.isRecordingTemplate = FALSE,
                                   !.templateBuffer = t.templateBuffer,
                                   !.templateEnvelope = t.templateEnvelope,
                                   !.buttonState = "listening",
                                   !.resetShown = TRUE]
    /\ UNCHANGED <<clock, isListening, count, lastScore, loops, scorer, utils>>

\* the reset-mantra button, confirmed
ResetTemplate ==
    /\ app.resetShown
    /\ app' = [app EXCEPT !.audio = "none",
                          !.templateBuffer = Null,
                          !.templateEnvelope = Null,
                          !.audioBuffer = << >>,
                          !.buttonState = "record",
                          !.resetShown = FALSE]
    /\ UNCHANGED <<clock, isListening, count, lastScore, loops, scorer, utils>>

\* the run-test button, with the audio already initialised and no test
\* running: runTest() up to the first recordTestPhase
RunTest ==
    /\ app.audio = "open"
    /\ app.testStep = -1
    /\ app' = [app EXCEPT !.testStep = 0, !.audioBuffer = << >>]
    /\ UNCHANGED <<clock, isListening, count, lastScore, loops, scorer, utils>>

\* the test's Start Recording button
TestStartRecording ==
    /\ app.testStep >= 0
    /\ ~app.testRecording
    /\ LET rec == [app EXCEPT !.audioBuffer = << >>,
                              !.isRecordingTemplate = TRUE,
                              !.testRecording = TRUE]
       IN  IF app.audio # "open" THEN app' = rec
           ELSE \E frame \in Frames :
                  app' = [rec EXCEPT !.audioBuffer = frame, !.capturing = TRUE]
    /\ UNCHANGED <<clock, isListening, count, lastScore, loops, scorer, utils>>

\* the test's Stop Recording button and the part of runTest() that follows
\* the recordTestPhase it ends: step 0 records the template, steps 1 to
\* TestRepetitions record a repetition each
TestStopRecording ==
    /\ app.testStep >= 0
    /\ app.testRecording
    /\ LET stopped == [app EXCEPT !.isRecordingTemplate = FALSE,
                                  !.testRecording = FALSE] IN
       IF app.audio = "none"
       THEN app' = [stopped EXCEPT !.testStep = -1]   \* runTest throws
       ELSE IF app.testStep = 0
       THEN LET t == TemplateOf(RawBuffer(app.audioBuffer), app.sampleRate)
            IN  app' = [stopped EXCEPT !.templateBuffer = t.templateBuffer,
                                       !.templateEnvelope = t.templateEnvelope,
                                       !.testStep = 1,
                                       !.audioBuffer = << >>]
       ELSE IF app.testStep < TestRepetitions
       THEN app' = [stopped EXCEPT !.testStep = @ + 1, !.audioBuffer = << >>]
       ELSE app' = [stopped EXCEPT !.testStep = -1]
    /\ UNCHANGED <<clock, isListening, count, lastScore, loops, scorer, utils>>

NextTemplate ==
    \/ TemplateRecord
    \/ TemplateMediaResolve
    \/ TemplateMediaReject
    \/ TemplateCapture
    \/ TemplateConfirm
    \/ ResetTemplate
    \/ RunTest
    \/ TestStartRecording
    \/ TestStopRecording

SpecTemplate == InitTemplate /\ [][NextTemplate]_vars

(***************************************************************************)
(* The counter: a detector running beside the manual-increment and the      *)
(* reset-counter buttons                                                    *)
(***************************************************************************)
\* manualIncrement(): this.count++
ManualIncrement ==
    /\ count < MaxCount
    /\ count' = count + 1
    /\ UNCHANGED <<clock, isListening, lastScore, loops, app, scorer, utils>>

\* resetCounter(): this.count = 0; the button is displayed once count > 0
ResetCounter ==
    /\ count > 0
    /\ count' = 0
    /\ UNCHANGED <<clock, isListening, lastScore, loops, app, scorer, utils>>

InitCounter ==
    /\ clock = StartTime
    /\ scorer = NoScorer
    /\ utils = NoUtils
    /\ isListening \in BOOLEAN
    /\ count = 0
    /\ lastScore = -1
    /\ app = NoApp
    /\ \E m \in BOOLEAN :
         \/ loops = << EnergyLoop(m) >>
         \/ loops = << PatternLoop(m, 2, 1, CHOOSE s \in SettingsSet : s.debounceTime = 100) >>

NextCounter ==
    \/ EnergyDetect(1)
    \/ TickEnergy
    \/ PatternDetect(1)
    \/ CooldownTimer(1)
    \/ TickPattern
    \/ SetListening
    \/ ManualIncrement
    \/ ResetCounter

SpecCounter == InitCounter /\ [][NextCounter]_vars

(***************************************************************************)
(* Pattern-mode sessions of an application whose template is recorded,      *)
(* with the settings sliders                                                *)
(***************************************************************************)
\* the sliders are moved one at a time away from the defaults
MoveOneSlider(field, v) ==
    /\ \A f \in DOMAIN SliderValues \ {field} : app[f] = DefaultSettings[f]
    /\ SetSlider(field, v)

InitSettings ==
    /\ clock = StartTime
    /\ scorer = NoScorer
    /\ utils = NoUtils
    /\ isListening = FALSE
    /\ count = 0
    /\ lastScore = -1
    /\ loops = << >>
    /\ \E m \in BOOLEAN :
         app = [AppInit("pattern", m) EXCEPT !.buttonState = "listening",
                                             !.audioBufferLen = AppFrameLen,
                                             !.templateLen = AppFrameLen,
                                             !.resetShown = TRUE]

NextSettings ==
    \/ StartListening
    \/ StopListening
    \/ \E k \in 1..MaxLoops : GetUserMediaResolve(k)
    \/ \E i \in 1..MaxLoops : AppPatternDetect(i)
    \/ \E field \in DOMAIN SliderValues :
         \E v \in SliderValues[field] : MoveOneSlider(field, v)

SpecSettings == InitSettings /\ [][NextSettings]_vars

(***************************************************************************)
(* A detector whose match sink may throw                                    *)
(***************************************************************************)
InitSink ==
    /\ clock = StartTime
    /\ scorer = NoScorer
    /\ utils = NoUtils
    /\ isListening = TRUE
    /\ count = 0
    /\ lastScore = -1
    /\ app = NoApp
    /\ \E m \in BOOLEAN :
         \/ loops = << EnergyLoop(m) >>
         \/ loops = << PatternLoop(m, 2, 1, CHOOSE s \in SettingsSet : s.debounceTime = 100) >>

NextSink ==
    \/ EnergyDetect(1)
    \/ EnergyDetectSinkFails(1)
    \/ TickEnergy
    \/ PatternDetect(1)
    \/ PatternDetectSinkFails(1)
    \/ CooldownTimer(1)
    \/ TickPattern

SpecSink == InitSink /\ [][NextSink]_vars

\* either detector
Init == InitEnergy \/ InitPattern

Next == NextEnergy \/ NextPattern

Spec == Init /\ [][Next]_vars

(***************************************************************************)
(* Properties                                                              *)
(***************************************************************************)

\* C1: after the pattern detector has emitted a MatchEvent it emits no
\* further one until its cooldown timer has fired, which is matchCooldown ms
\* or more after the emission, whatever the later checks score.
C1_Cooldown ==
    [][ \A i \in DOMAIN loops :
          (loops[i].kind = "pattern" /\ count' > count)
          => LET st == loops[i].st IN
             /\ ~st.inCooldown
             /\ st.timers = << >>
             /\ st.lastMatchTime > 0
                  => clock - st.lastMatchTime >= st.settings.matchCooldown ]_vars

\* a second MatchEvent has been emitted after the cooldown of the first
C1_Witness ==
    /\ loops[1].kind = "pattern"
    /\ count = 2
    /\ loops[1].st.inCooldown

\* C2: the pattern detector emits only at a similarity check whose score is
\* at or above similarityThreshold and at which the incremented streak is at
\* least minMatchStreak (8, or 6 on mobile); fewer than that many passing
\* checks since the streak was last 0 never emit.
C2_SustainedMatch ==
    [][ \A i \in DOMAIN loops :
          (loops[i].kind = "pattern" /\ count' > count)
          => LET st == loops[i].st
                 need == IF st.isMobile THEN 6 ELSE 8
             IN  /\ count' = count + 1
                 /\ loops'[i].st.segment # << >>
                 /\ loops'[i].st.frameCount % 10 = 0
                 /\ lastScore' >= st.settings.similarityThreshold
                 /\ st.matchStreak + 1 >= need
                 /\ loops[i].passRun + 1 >= need ]_vars

\* the desktop detector emitted at its eighth check, the earliest possible
C2_Witness ==
    /\ loops[1].kind = "pattern"
    /\ ~loops[1].st.isMobile
    /\ count = 1
    /\ loops[1].st.frameCount = 80
    /\ loops[1].st.segment # << >>
    /\ loops[1].st.lastMatchTime = clock

\* C3: at a check outside cooldown whose score passes and at which the
\* streak reaches minMatchStreak, a MatchEvent is emitted exactly when the
\* time since the last counted match is at least debounceTime, equality
\* included.
C3_DebounceInclusive ==
    [][ \A rms \in PatternRmsLevels, tr \in BOOLEAN, sim \in Scores :
          (/\ loops[1].kind = "pattern"
           /\ isListening
           /\ PatternDetectWith(1, rms, tr, sim)
           /\ (loops[1].st.frameCount + 1) % 10 = 0
           /\ rms > (IF loops[1].st.isMobile THEN 20 ELSE 50)
           /\ ~tr
           /\ ~loops[1].st.inCooldown
           /\ sim >= loops[1].st.settings.similarityThreshold
           /\ loops[1].st.matchStreak + 1 >= (IF loops[1].st.isMobile THEN 6 ELSE 8))
          => (count' = count + 1
                <=> clock - loops[1].st.lastMatchTime
                      >= loops[1].st.settings.debounceTime) ]_vars

\* C4: the energy detector calls onMatch, and leaves 'chanting' for
\* 'waiting', only on a step at which the silence timer was started at least
\* 600 ms ago, the chant lasted at least 500 ms up to the start of that
\* silence, and a loud sample occurred during the chant; the confidence
\* passed to onMatch is exactly 1.0.
C4_EnergyMatchCondition ==
    [][ \A i \in DOMAIN loops :
          LET st == loops[i].st IN
          (loops[i].kind = "energy" /\
             (count' # count \/
              (st.state = "chanting" /\ loops'[i].st.state = "waiting")))
          => /\ st.state = "chanting"
             /\ loops'[i].st.state = "waiting"
             /\ st.silenceStartTime > 0
             /\ clock - st.silenceStartTime >= 600
             /\ st.silenceStartTime - st.chantStartTime >= 500
             /\ st.hasHadLoudSound
             /\ count' = count + 1
             /\ lastScore' = 100 ]_vars

\* a match has just been emitted by the energy detector
C4_Witness ==
    /\ loops[1].kind = "energy"
    /\ count = 1
    /\ lastScore = 100
    /\ loops[1].st.state = "waiting"
    /\ loops[1].st.lastCountTime = clock

\* C5: in scenario A exactly one MatchEvent is emitted, its score is 1.0,
\* and the detector is in 'waiting' when the stream ends.
C5_ScenarioA ==
    /\ count <= 1
    /\ clock - StartTime >= 600 + 700
         => /\ count = 1
            /\ lastScore = 100
            /\ loops[1].st.state = "waiting"

\* the stream of scenario A has been fed to its end
C5_Witness ==
    /\ clock - StartTime >= 600 + 700
    /\ loops[1].st.rms = 1
    /\ count = 1

\* C6: a step of the energy detector taken less than 800 ms after its last
\* MatchEvent changes none of state, chantStartTime, silenceStartTime and
\* hasHadLoudSound, emits nothing, and (while listening) reschedules itself
\* once, whatever the RMS of the frame.
C6_GlobalDebounce ==
    [][ \A rms \in RmsLevels :
          (/\ loops[1].kind = "energy"
           /\ loops[1].st.lastCountTime > 0
           /\ clock - loops[1].st.lastCountTime < 800
           /\ EnergyDetectWith(1, rms))
          => LET st == loops[1].st
                 nx == loops'[1].st
             IN  /\ st.state = "waiting" /\ nx.state = "waiting"
                 /\ nx.chantStartTime = st.chantStartTime
                 /\ nx.silenceStartTime = st.silenceStartTime
                 /\ nx.hasHadLoudSound = st.hasHadLoudSound
                 /\ nx.lastCountTime = st.lastCountTime
                 /\ count' = count
                 /\ lastScore' = lastScore
                 /\ isListening => loops'[1].pending = loops[1].pending ]_vars

\* a loud frame was read 700 ms after a match and the detector is still waiting
C6_Witness ==
    /\ loops[1].kind = "energy"
    /\ count = 1
    /\ clock - loops[1].st.lastCountTime = 700
    /\ loops[1].st.rms = 500
    /\ loops[1].st.state = "waiting"
    /\ loops[1].pending = 1

\* C7: a step of either detector taken while isListening() is false changes
\* nothing of the detector, emits nothing and schedules no successor; a step
\* taken while it is true schedules exactly one successor on every path; so
\* a loop never has more than one pending step.
C7_Cancellation ==
    [][ \A i \in DOMAIN loops :
          LET timerFired ==
                /\ loops[i].kind = "pattern"
                /\ Len(loops'[i].st.timers) < Len(loops[i].st.timers)
                /\ loops'[i].pending = loops[i].pending
          IN
          /\ (~isListening /\ loops'[i] # loops[i])
               => /\ count' = count
                  /\ lastScore' = lastScore
                  /\ \/ timerFired
                     \/ /\ loops'[i].st = loops[i].st
                        /\ loops'[i].pending = loops[i].pending - 1
          /\ isListening => loops'[i].pending = loops[i].pending
          /\ loops[i].pending <= 1
          /\ loops'[i].pending <= 1 ]_vars

\* an energy loop that took the debounce path after a match was cancelled
C7_Witness ==
    /\ loops[1].kind = "energy"
    /\ ~isListening
    /\ loops[1].pending = 0
    /\ count = 1
    /\ loops[1].st.rms = 500
    /\ loops[1].st.lastCountTime > 0

\* C8: at most one detector loop is live at any time: while the application
\* listens, no two loops have a pending step.
C8_SingleDetector ==
    isListening => Cardinality({i \in DOMAIN loops : loops[i].pending > 0}) <= 1

\* C9: at every similarity check at least templateBuffer.length samples have
\* been written to the sliding buffer, so the scored window holds no
\* never-written slot.
C9_LiveSamples ==
    \A i \in DOMAIN loops :
      (loops[i].kind = "pattern" /\ loops[i].st.segment # << >>)
      => /\ loops[i].st.bufferIndex >= loops[i].st.templateLen
         /\ \A k \in DOMAIN loops[i].st.segment : loops[i].st.segment[k] # 0

\* C10: once templateBuffer.length samples have been written, the segment
\* extracted at a check is the last templateBuffer.length samples written,
\* oldest first.
C10_WindowExtraction ==
    \A i \in DOMAIN loops :
      LET st == loops[i].st IN
      (loops[i].kind = "pattern" /\ st.segment # << >>
         /\ st.bufferIndex >= st.templateLen)
      => st.segment = [k \in 1..st.templateLen |-> st.bufferIndex - st.templateLen + k]

\* a window was extracted at the third check from a buffer shorter than a frame
C10_Witness ==
    /\ loops[1].kind = "pattern"
    /\ loops[1].st.segment # << >>
    /\ loops[1].st.frameLen > 2 * loops[1].st.templateLen
    /\ loops[1].st.frameCount = 30
    /\ loops[1].st.segment = << 90 >>

\* C11: at a similarity check outside cooldown whose score is below
\* similarityThreshold the match streak becomes max(0, streak - 1), so a
\* streak of 2 or more is not reset to 0; no MatchEvent is emitted at that
\* check; and the streak is never negative.
C11_StreakDecay ==
    [][ /\ \A i \in DOMAIN loops :
             loops[i].kind = "pattern"
             => loops[i].st.matchStreak >= 0 /\ loops'[i].st.matchStreak >= 0
        /\ \A rms \in PatternRmsLevels, tr \in BOOLEAN, sim \in Scores :
             (/\ loops[1].kind = "pattern"
              /\ isListening
              /\ PatternDetectWith(1, rms, tr, sim)
              /\ (loops[1].st.frameCount + 1) % 10 = 0
              /\ rms > (IF loops[1].st.isMobile THEN 20 ELSE 50)
              /\ ~tr
              /\ ~loops[1].st.inCooldown
              /\ sim < loops[1].st.settings.similarityThreshold)
             => LET streak == loops[1].st.matchStreak IN
                /\ loops'[1].st.matchStreak = (IF streak >= 1 THEN streak - 1 ELSE 0)
                /\ streak >= 2 => loops'[1].st.matchStreak # 0
                /\ count' = count
                /\ lastScore' = lastScore ]_vars

\* a streak of 2 has just been decayed to 1 by a failing check
C11_Witness ==
    /\ loops[1].kind = "pattern"
    /\ loops[1].st.segment # << >>
    /\ loops[1].st.matchStreak = 1
    /\ loops[1].passRun = 2

\* C12: every MatchEvent a detector emits increases the counter by exactly
\* 1 and a step that emits none leaves it alone; the counter changes only by
\* +1 at a MatchEvent or a manual increment, or to 0 at resetCounter; it is
\* never negative.
C12_MatchConsumption ==
    [][ /\ count >= 0 /\ count' >= 0
        /\ \A rms \in RmsLevels :
             (loops[1].kind = "energy" /\ isListening /\ EnergyDetectWith(1, rms))
             => count' = count +
                  (IF EnergyBody(loops[1].st, rms, clock).emit THEN 1 ELSE 0)
        /\ \A rms \in PatternRmsLevels, tr \in BOOLEAN, sim \in Scores :
             (loops[1].kind = "pattern" /\ isListening /\ PatternDetectWith(1, rms, tr, sim))
             => count' = count +
                  (IF PatternBody(loops[1].st, rms, tr, sim, clock).emit THEN 1 ELSE 0)
        /\ count' # count
             => \/ count' = 0 /\ ResetCounter
                \/ count' = count + 1 /\ ManualIncrement
                \/ count' = count + 1 /\ isListening /\ loops'[1] # loops[1] ]_vars

\* a detector has emitted a MatchEvent on top of two manual increments
C12_Witness ==
    /\ count = MaxCount + 1
    /\ lastScore >= 0
    /\ \/ loops[1].kind = "energy" /\ loops[1].st.lastCountTime = clock
       \/ loops[1].kind = "pattern" /\ loops[1].st.lastMatchTime = clock

\* C13: the settings of a running pattern detector are the values the
\* sliders had when startPatternDetection was called: no step changes the
\* settings of a loop that exists, a slider event changes no loop at all,
\* and a loop started by a step has the slider values of that moment.
C13_SettingsFixed ==
    [][ /\ \A i \in DOMAIN loops :
             loops[i].kind = "pattern"
             => /\ i \in DOMAIN loops'
                /\ loops'[i].st.settings = loops[i].st.settings
        /\ \A i \in DOMAIN loops' :
             (i \notin DOMAIN loops /\ loops'[i].kind = "pattern")
             => loops'[i].st.settings = SessionSettings(app)
        /\ SessionSettings(app') # SessionSettings(app) => loops' = loops ]_vars

\* the sliders were moved while a pattern detector was running, and a second
\* detector was started afterwards with the new values
C13_Witness ==
    /\ Len(loops) = 2
    /\ loops[1].kind = "pattern" /\ loops[2].kind = "pattern"
    /\ loops[1].st.settings = DefaultSettings
    /\ loops[2].st.settings = [DefaultSettings EXCEPT !.debounceTime = 100]
    /\ SessionSettings(app) = [DefaultSettings EXCEPT !.matchCooldown = 200]
    /\ loops[1].st.frameCount > 1

\* C14: a step that emits a MatchEvent completes its state update (the
\* pattern detector resets its streak and enters cooldown, the energy
\* detector returns to 'waiting') and schedules its next step even when the
\* match sink fails; so a loop has a pending step whenever isListening()
\* holds.
C14_SinkFailureSwallowed ==
    [][ \A i \in DOMAIN loops :
          /\ isListening => loops[i].pending = 1 /\ loops'[i].pending = 1
          /\ (isListening /\ count' = count + 1)
               => IF loops[i].kind = "pattern"
                  THEN /\ loops'[i].st.matchStreak = 0
                       /\ loops'[i].st.inCooldown
                  ELSE /\ loops'[i].st.state = "waiting"
                       /\ loops'[i].st.lastCountTime = clock ]_vars

\* C15: every score computeSimilarity returns for two envelopes of
\* non-negative values is a number between 0 and 1, both included.
C15_ScoreRange ==
    scorer.calls > 0
    => /\ scorer.last.similarity.a.den > 0
       /\ scorer.last.similarity.b.den > 0
       /\ ScoreGeq(scorer.last.similarity, 0, 1)
       /\ ScoreLeq(scorer.last.similarity, 1, 1)

C17_EnergyGate ==
    [][ (/\ CallComputeSimilarity
         /\ Len(scorer.envelope1) >= 3
         /\ Len(scorer.envelope2) >= 3)
        => LET x1 == SumTo(scorer.envelope1, Len(scorer.envelope1)) * Len(scorer.envelope2)
               x2 == SumTo(scorer.envelope2, Len(scorer.envelope2)) * Len(scorer.envelope1)
               mn == IF x1 <= x2 THEN x1 ELSE x2
               mx == IF x1 <= x2 THEN x2 ELSE x1
               below == IF isMobileDevice(scorer) THEN 4 * mn < mx ELSE 10 * mn < 3 * mx
               out == scorer'.last
           IN  mx > 0 =>
               IF below
               THEN /\ out.similarity.b = Frac(1, 1)
                    /\ out.similarity.a.num * mx = mn * out.similarity.a.den
                    /\ ~ScoreGeq(out.similarity, 1, 2)
               ELSE /\ out.similarity.a = out.cosine
                    /\ out.similarity.b.num * 10 * mx
                          = (7 * mx + 3 * mn) * out.similarity.b.den ]_vars

\* an envelope with 10% of the other's mean energy was scored: 0.1
C17_Witness ==
    /\ scorer.calls > 0
    /\ Len(scorer.envelope1) >= 3
    /\ Len(scorer.envelope2) >= 3
    /\ scorer.last.energyRatio.num > 0
    /\ scorer.last.energyRatio.num * 10 = scorer.last.energyRatio.den
    /\ scorer.last.similarity = [a |-> scorer.last.energyRatio, b |-> Frac(1, 1)]

C19_Deterministic ==
    scorer.calls >= 2 => scorer.last = scorer.first

\* C20: the cosine that enters the score is the cosine of the two envelopes
\* resampled to 50 points and then normalized to [0,1].
C20_CosineOfNormalized ==
    (/\ scorer.calls > 0
     /\ Len(scorer.envelope1) >= 3
     /\ Len(scorer.envelope2) >= 3)
    => LET c == scorer.last.cosine
           n == cosineSimilarityNormalized(scorer.envelope1, scorer.envelope2)
       IN  /\ LeqFrac(c.num, c.den, n.num, n.den)
           /\ LeqFrac(n.num, n.den, c.num, c.den)

(***************************************************************************)
(* C21 (as stated).  When at least one window is above the threshold,      *)
(* trimSilence returns the slice that starts one window (1024 samples)     *)
(* before the first window above the threshold, clamped to 0, and that     *)
(* ends after two windows (2048 samples) of margin behind the last window  *)
(* above the threshold, clamped to the buffer length.                      *)
(***************************************************************************)
C21_TrimMarginsTwoWindows ==
    utils.fn = "trimSilence" =>
      LET n     == utils.audioData.length
          loud  == {k \in 1..Len(utils.audioData.rms) :
                      utils.audioData.rms[k] > defaultThreshold}
          first == CHOOSE k \in loud : \A j \in loud : k <= j
          last  == CHOOSE k \in loud : \A j \in loud : j <= k
      IN  loud # {} =>
            /\ utils.result.data.from = Max(0, (first - 1) * windowSize - windowSize)
            /\ utils.result.data.to = Min(n, Min(n, last * windowSize) + 2 * windowSize)

(***************************************************************************)
(* C21 (amended).  When at least one window is above the threshold,        *)
(* trimSilence returns the slice that starts one window (1024 samples)     *)
(* before the first window above the threshold, clamped to 0, and that     *)
(* ends 2048 samples after the start of the last window above the          *)
(* threshold, which is one window of margin behind that window, clamped    *)
(* to the buffer length.                                                   *)
(***************************************************************************)
C21_TrimMargins ==
    utils.fn = "trimSilence" =>
      LET n     == utils.audioData.length
          loud  == {k \in 1..Len(utils.audioData.rms) :
                      utils.audioData.rms[k] > defaultThreshold}
          first == CHOOSE k \in loud : \A j \in loud : k <= j
          last  == CHOOSE k \in loud : \A j \in loud : j <= k
      IN  loud # {} =>
            /\ utils.result.data.from = Max(0, (first - 1) * windowSize - windowSize)
            /\ utils.result.data.to = Min(n, (last - 1) * windowSize + 2 * windowSize)
            /\ utils.result.data.to = Min(n, Min(n, last * windowSize) + windowSize)

\* a buffer of five windows of which only the third is above the threshold:
\* the slice runs from sample 1024 to sample 4096
C21_Witness ==
    /\ utils.fn = "trimSilence"
    /\ utils.audioData.length = 5000
    /\ utils.audioData.rms = <<100, 200, 300, 200, 100>>
    /\ utils.result.data = [from |-> 1024, to |-> 4096]

(***************************************************************************)
(* C22.  For an empty buffer, and for a buffer in which no window's RMS    *)
(* exceeds the threshold, trimSilence returns the samples of the input     *)
(* unchanged: the same length, the same contents and silenceRemoved = 0.   *)
(***************************************************************************)
C22_TrimFallback ==
    (/\ utils.fn = "trimSilence"
     /\ \A k \in 1..Len(utils.audioData.rms) :
           utils.audioData.rms[k] <= defaultThreshold)
    => /\ utils.result.data = [from |-> 0, to |-> utils.audioData.length]
       /\ utils.result.trimmedDuration = utils.result.originalDuration
       /\ utils.result.silenceRemoved.num = 0

\* a recording of 3000 samples whose loudest windows are at the threshold
C22_Witness ==
    /\ utils.fn = "trimSilence"
    /\ utils.audioData.length = 3000
    /\ utils.audioData.rms = <<200, 100, 200>>
    /\ utils.result.data = [from |-> 0, to |-> 3000]

(***************************************************************************)
(* C23.  For every buffer and sample rate, trimmedDuration is at most      *)
(* originalDuration and silenceRemoved is their difference, which is not   *)
(* negative; when every window of the buffer is above the threshold,       *)
(* trimmedDuration equals originalDuration.                                *)
(***************************************************************************)
C23_TrimDurations ==
    utils.fn = "trimSilence" =>
      LET r == utils.result IN
        /\ r.originalDuration = Frac(utils.audioData.length, utils.sampleRate)
        /\ r.trimmedDuration = Frac(r.data.to - r.data.from, utils.sampleRate)
        /\ LeqFrac(r.trimmedDuration.num, r.trimmedDuration.den,
                   r.originalDuration.num, r.originalDuration.den)
        /\ r.silenceRemoved.den = utils.sampleRate
        /\ r.silenceRemoved.num = r.originalDuration.num - r.trimmedDuration.num
        /\ r.silenceRemoved.num >= 0
        /\ (\A k \in 1..Len(utils.audioData.rms) :
               utils.audioData.rms[k] > defaultThreshold)
           => r.trimmedDuration = r.originalDuration

\* a recording of five windows, all of them above the threshold
C23_Witness ==
    /\ utils.fn = "trimSilence"
    /\ utils.audioData.rms = <<300, 300, 300, 300, 300>>
    /\ utils.result.trimmedDuration = Frac(5000, utils.sampleRate)
    /\ utils.result.silenceRemoved.num = 0

(***************************************************************************)
(* C25.  For a buffer of n samples and a window size w, extractEnvelope    *)
(* returns exactly ceil(n / w) values; the k-th value is the RMS of the    *)
(* k-th window of w samples, windows not overlapping and the last one      *)
(* divided by its own, possibly smaller, number of samples; no value is    *)
(* negative, and a buffer of length 0 yields an empty envelope.            *)
(***************************************************************************)
C25_EnvelopeLength ==
    utils.fn = "extractEnvelope" =>
      LET n   == Len(utils.audioData)
          w   == utils.windowSize
          env == utils.result
      IN  /\ DOMAIN env = 1..Len(env)
          /\ (Len(env) - 1) * w < n
          /\ n <= Len(env) * w
          /\ n = 0 => env = << >>
          /\ \A k \in 1..Len(env) :
               LET first == (k - 1) * w + 1
                   last  == IF k * w <= n THEN k * w ELSE n
               IN  /\ env[k].den = last - first + 1
                   /\ env[k].den >= 1
                   /\ env[k].num =
                        SumTo([j \in 1..env[k].den |->
                                 utils.audioData[first + j - 1]
                                   * utils.audioData[first + j - 1]],
                              env[k].den)
                   /\ env[k].num >= 0

\* five samples in windows of three: two values, the second one the RMS of
\* the two samples that are left
C25_Witness ==
    /\ utils.fn = "extractEnvelope"
    /\ utils.audioData = <<1, -2, 0, -2, -2>>
    /\ utils.windowSize = 3
    /\ utils.result = <<Frac(5, 3), Frac(8, 2)>>

(***************************************************************************)
(* C26.  For every non-empty seq and every len >= 1, resample(seq, len)    *)
(* is seq itself when len is the length of seq and otherwise consists of   *)
(* exactly len points found by linear interpolation, the upper index       *)
(* clamped to the last element; the first output is seq[0], the last       *)
(* output is the last element of seq, and no output is undefined or NaN.   *)
(* (Outputs are compared multiplied by ResampleScale(len).)                *)
(***************************************************************************)
C26_Resampler ==
    utils.fn = "resample" =>
      LET seq == utils.arr
          len == utils.targetLength
          out == utils.result
          sc  == ResampleScale(len)
      IN  /\ Len(out) = len
          /\ len = Len(seq) => \A k \in 1..len : out[k] = seq[k] * sc
          /\ \A k \in 1..len : out[k] # NaN
          /\ out[1] = seq[1] * sc
          /\ out[len] = seq[Len(seq)] * sc
          /\ \A k \in 1..len :
               \E j \in 1..Len(seq) :
                  LET up == IF j = Len(seq) THEN j ELSE j + 1
                  IN  \/ out[k] \in seq[j] * sc .. seq[up] * sc
                      \/ out[k] \in seq[up] * sc .. seq[j] * sc

(***************************************************************************)
(* C27.  normalize(seq) has the length of seq, maps the minimum of seq to  *)
(* 0 and the maximum to 1 and every value into [0, 1]; when all values     *)
(* are equal the result is all zeros; no output is NaN or Infinity.        *)
(***************************************************************************)
C27_Normalizer ==
    utils.fn = "normalize" =>
      LET seq == utils.arr
          out == utils.result
          constant == \A j, k \in 1..Len(seq) : seq[j] = seq[k]
      IN  /\ DOMAIN out = 1..Len(seq)
          /\ \A k \in 1..Len(seq) :
               /\ out[k].den > 0
               /\ 0 <= out[k].num /\ out[k].num <= out[k].den
               /\ constant => out[k].num = 0
               /\ ~constant =>
                    /\ (\A j \in 1..Len(seq) : seq[k] <= seq[j]) => out[k].num = 0
                    /\ (\A j \in 1..Len(seq) : seq[j] <= seq[k])
                         => out[k].num = out[k].den
                    /\ \A j \in 1..Len(seq) :
                         seq[j] <= seq[k]
                         => out[j].num * out[k].den <= out[k].num * out[j].den

\* a constant sequence, normalized to zeros
C27_Witness ==
    /\ utils.fn = "normalize"
    /\ utils.arr = <<5, 5, 5>>
    /\ utils.result = <<Frac(0, 1), Frac(0, 1), Frac(0, 1)>>

(***************************************************************************)
(* C24.  In every reachable state templateBuffer and templateEnvelope are  *)
(* both null or both set, and when set templateEnvelope is the envelope    *)
(* of templateBuffer; a step that sets the template sets templateBuffer    *)
(* to the output of trimSilence on the recording of that moment, never to  *)
(* the raw recording when the two differ; resetMantra clears both, and     *)
(* confirmTemplate with an empty recording leaves the template unchanged.  *)
(***************************************************************************)
C24_TemplateConsistent ==
    [][ LET Consistent(a) ==
              /\ (a.templateBuffer = Null) <=> (a.templateEnvelope = Null)
              /\ a.templateBuffer # Null
                 => /\ a.templateEnvelope.values = a.templateBuffer.rms
                    /\ a.templateBuffer.length
                         = Len(a.templateBuffer.rms) * windowSize
            Trimmed(rec) ==
              LET loud  == {k \in 1..Len(rec) : rec[k] > defaultThreshold}
                  first == CHOOSE k \in loud : \A j \in loud : k <= j
                  last  == CHOOSE k \in loud : \A j \in loud : j <= k
              IN  IF loud = {} THEN rec
                  ELSE SubSeq(rec, Max(1, first - 1), Min(Len(rec), last + 1))
        IN  /\ Consistent(app)
            /\ Consistent(app')
            /\ app'.templateBuffer # app.templateBuffer
               => \/ app'.templateBuffer = Null
                  \/ app'.templateBuffer.rms = Trimmed(app.audioBuffer)
            /\ ResetTemplate => app'.templateBuffer = Null
            /\ (TemplateConfirm /\ app.audioBuffer = << >>)
               => /\ app'.templateBuffer = app.templateBuffer
                  /\ app'.templateEnvelope = app.templateEnvelope ]_vars

\* a template made of a recording whose last two windows were trimmed off
C24_Witness ==
    /\ app.buttonState = "listening"
    /\ app.audioBuffer = <<300, 100, 100, 100>>
    /\ app.templateBuffer = [length |-> 2048, rms |-> <<300, 100>>]
    /\ app.templateEnvelope = [values |-> <<300, 100>>]

(***************************************************************************)
(* C28.  While the energy detector is in 'chanting', every processed       *)
(* frame whose RMS is above the transition threshold, above the loud       *)
(* threshold or not, sets the silence timer back to none and leaves        *)
(* chantStartTime as it is, and emits nothing; so a match is emitted only  *)
(* when the timer was already running and the frame before was at or       *)
(* below the transition threshold.                                         *)
(***************************************************************************)
C28_SilenceTimerReset ==
    [][ /\ \A rms \in RmsLevels :
             LET st == loops[1].st IN
             (/\ EnergyDetectWith(1, rms)
              /\ isListening
              /\ ~(clock - st.lastCountTime < 800)
              /\ st.state = "chanting"
              /\ rms > transitionThreshold(st.isMobile))
             => /\ loops'[1].st.silenceStartTime = 0
                /\ loops'[1].st.chantStartTime = st.chantStartTime
                /\ loops'[1].st.state = "chanting"
                /\ count' = count
        /\ (loops[1].kind = "energy" /\ count' = count + 1)
           => /\ loops[1].st.silenceStartTime > 0
              /\ loops[1].st.rms <= transitionThreshold(loops[1].st.isMobile)
              /\ loops[1].st.state = "chanting" ]_vars

\* 1100 ms into a chant a moderately loud frame has just been processed and
\* the silence timer is at none
C28_Witness ==
    /\ loops[1].kind = "energy"
    /\ loops[1].st.state = "chanting"
    /\ loops[1].st.silenceStartTime = 0
    /\ loops[1].st.rms > transitionThreshold(loops[1].st.isMobile)
    /\ loops[1].st.rms <= loudThreshold(loops[1].st.isMobile)
    /\ clock - loops[1].st.chantStartTime >= 1100
    /\ count = 0

(***************************************************************************)
(* C29.  While the energy detector is in 'chanting', a processed frame     *)
(* whose RMS is above the silence threshold and at most the transition     *)
(* threshold starts the silence timer if none is running, leaves it        *)
(* unchanged otherwise, and never emits a match; a match is emitted only   *)
(* on a frame whose RMS is at most the silence threshold, the silence      *)
(* duration being measured from the first frame of the run, which may be   *)
(* a frame of that low band.                                               *)
(***************************************************************************)
C29_LowBand ==
    [][ \A rms \in RmsLevels :
          LET st == loops[1].st IN
          (/\ EnergyDetectWith(1, rms)
           /\ isListening
           /\ ~(clock - st.lastCountTime < 800)
           /\ st.state = "chanting")
          => /\ (rms > silenceThreshold(st.isMobile)
                 /\ rms <= transitionThreshold(st.isMobile))
                => /\ loops'[1].st.silenceStartTime =
                        IF st.silenceStartTime = 0 THEN clock
                        ELSE st.silenceStartTime
                   /\ loops'[1].st.state = "chanting"
                   /\ loops'[1].st.chantStartTime = st.chantStartTime
                   /\ count' = count
             /\ count' # count
                => /\ rms <= silenceThreshold(st.isMobile)
                   /\ st.silenceStartTime > 0
                   /\ clock - st.silenceStartTime >= 600 ]_vars

\* a silence timer started by a frame of the low band has run for 600 ms
\* of such frames, and nothing was emitted
C29_Witness ==
    /\ loops[1].kind = "energy"
    /\ loops[1].st.state = "chanting"
    /\ loops[1].st.rms > silenceThreshold(loops[1].st.isMobile)
    /\ loops[1].st.rms <= transitionThreshold(loops[1].st.isMobile)
    /\ loops[1].st.silenceStartTime > 0
    /\ clock - loops[1].st.silenceStartTime >= 600
    /\ loops[1].st.silenceStartTime - loops[1].st.chantStartTime >= 500
    /\ loops[1].pending = 1
    /\ count = 0

(***************************************************************************)
(* C30.  In every reachable state in which the pattern detector is in      *)
(* cooldown its match streak is 0.  A check that occurs during cooldown    *)
(* extracts no window, evaluates no similarity (the step is the same       *)
(* whatever the score of the window would be), emits nothing and leaves    *)
(* lastMatchTime unchanged.                                                *)
(***************************************************************************)
C30_CooldownState ==
    [][ /\ loops[1].st.inCooldown => loops[1].st.matchStreak = 0
        /\ loops'[1].st.inCooldown => loops'[1].st.matchStreak = 0
        /\ \A rms \in PatternRmsLevels, tr \in BOOLEAN, sim \in Scores :
             LET st == loops[1].st IN
             (/\ PatternDetectWith(1, rms, tr, sim)
              /\ isListening
              /\ (st.frameCount + 1) % 10 = 0
              /\ rms > minEnergyThreshold(st.isMobile)
              /\ ~tr
              /\ st.inCooldown)
             => /\ loops'[1].st.segment = << >>
                /\ loops'[1].st.slidingBuffer # st.slidingBuffer
                /\ \A other \in Scores :
                     PatternBody(st, rms, tr, other, clock).st = loops'[1].st
                /\ count' = count
                /\ lastScore' = lastScore
                /\ loops'[1].st.lastMatchTime = st.lastMatchTime
                /\ loops'[1].st.matchStreak = 0
                /\ loops'[1].st.inCooldown
                /\ loops'[1].pending = loops[1].pending ]_vars

\* a check has just been skipped because the detector is in cooldown
C30_Witness ==
    /\ loops[1].kind = "pattern"
    /\ loops[1].st.inCooldown
    /\ loops[1].st.frameCount % 10 = 0
    /\ loops[1].st.frameCount > 0
    /\ loops[1].st.lastMatchTime < clock
    /\ loops[1].st.segment = << >>
    /\ count = 1

(***************************************************************************)
(* The pattern detector scoring each window with computeSimilarity          *)
(***************************************************************************)
MaxScoredFrames == 90
TemplateEnvelope == <<0, 1, 5>>
SegmentEnvelopes == { <<0, 1, 5>>, <<1, 1, 5>>, <<0, 1, 1>> }

\* a score in whole percent, rounded down; 101 stands for any score above 1
Percent(score) ==
    IF ~ScoreLeq(score, 1, 1) THEN 101
    ELSE CHOOSE h \in 0..100 :
           /\ ScoreGeq(score, h, 100)
           /\ h < 100 => ~ScoreGeq(score, h + 1, 100)

MeasuredSimilarity ==
    [isMobile \in BOOLEAN |->
       [segmentEnvelope \in SegmentEnvelopes |->
          Percent(computeSimilarity(TemplateEnvelope, segmentEnvelope,
                                    isMobile).similarity)]]

InitEmission ==
    /\ clock = StartTime
    /\ scorer = NoScorer
    /\ utils = NoUtils
    /\ isListening \in BOOLEAN
    /\ count = 0
    /\ lastScore = -1
    /\ app = NoApp
    /\ \E m \in BOOLEAN :
         loops = << PatternLoop(m, 2, 1,
                      [similarityThreshold |-> 75, debounceTime |-> 100,
                       matchCooldown |-> 200]) >>

\* one animation-frame callback whose window, when it is scored, has the
\* envelope segmentEnvelope
ScoredDetectWith(i, rms, isTransitioning, segmentEnvelope) ==
    /\ i \in DOMAIN loops
    /\ loops[i].kind = "pattern"
    /\ PatternDetectWith(i, rms, isTransitioning,
                         MeasuredSimilarity[loops[i].st.isMobile][segmentEnvelope])

ScoredDetect(i) ==
    /\ loops[i].kind = "pattern"
    /\ isListening => loops[i].st.frameCount < MaxScoredFrames
    /\ \E rms \in PatternRmsLevels, isTransitioning \in BOOLEAN,
          segmentEnvelope \in SegmentEnvelopes :
            ScoredDetectWith(i, rms, isTransitioning, segmentEnvelope)

NextEmission ==
    \/ ScoredDetect(1)
    \/ CooldownTimer(1)
    \/ TickPattern
    \/ SetListening

SpecEmission == InitEmission /\ [][NextEmission]_vars

\* C31 (as stated): whenever the pattern detector emits a MatchEvent, its
\* score is the similarity measured at that check, at least
\* similarityThreshold and at most 1, and right after the step the streak is
\* 0, the detector is in cooldown, lastMatchTime is the time of the check and
\* exactly one cooldown timer, due matchCooldown ms later, is pending.
C31_EmissionPostState ==
    [][\A rms \in PatternRmsLevels, isTransitioning \in BOOLEAN,
          segmentEnvelope \in SegmentEnvelopes :
         (/\ ScoredDetectWith(1, rms, isTransitioning, segmentEnvelope)
          /\ count' # count)
         => LET similarity ==
                  MeasuredSimilarity[loops[1].st.isMobile][segmentEnvelope]
                st == loops'[1].st
            IN  /\ count' = count + 1
                /\ lastScore' = similarity
                /\ similarity >= st.settings.similarityThreshold
                /\ similarity <= 100
                /\ st.matchStreak = 0
                /\ st.inCooldown
                /\ st.lastMatchTime = clock
                /\ st.timers = << clock + st.settings.matchCooldown >>]_vars

(***************************************************************************)
(* The pattern detector with its RMS history: the transition flag is        *)
(* computed from the last frames instead of being an input                  *)
(***************************************************************************)
energyHistorySize == 20
minHistory == 10
HistoryRmsLevels == {0, 20, 60}
HistoryScores == {74, 100}
LevelHold == 5
MaxHistoryFrames == 65

\* recentEnergies.push(rms); if (recentEnergies.length > energyHistorySize) shift()
PushEnergy(recentEnergies, rms) ==
    LET pushed == Append(recentEnergies, rms) IN
    IF Len(pushed) > energyHistorySize THEN Tail(pushed) ELSE pushed

\* energyDrop = recentMax > 0 ? (recentMax - avgRecentEnergy) / recentMax : 0
EnergyDrop(recentEnergies) ==
    LET n         == Len(recentEnergies)
        recentMax == ArrMax(recentEnergies)
        sum       == SumTo(recentEnergies, n)
    IN  IF recentMax > 0 THEN Frac(recentMax * n - sum, recentMax * n)
        ELSE Frac(0, 1)

\* isTransitioning = energyDrop > 0.3 && recentEnergies.length >= 10
IsTransitioning(recentEnergies) ==
    LET energyDrop == EnergyDrop(recentEnergies) IN
    /\ 10 * energyDrop.num > 3 * energyDrop.den
    /\ Len(recentEnergies) >= minHistory

HistoryLoop(isMobile, settings) ==
    [kind |-> "pattern", pending |-> 1, passRun |-> 0,
     st |-> PatternInit(isMobile, 2, 1, settings),
     recentEnergies |-> << >>]

InitHistory ==
    /\ clock = StartTime
    /\ scorer = NoScorer
    /\ utils = NoUtils
    /\ isListening \in BOOLEAN
    /\ count = 0
    /\ lastScore = -1
    /\ app = NoApp
    /\ \E m \in BOOLEAN :
         loops = << HistoryLoop(m, [similarityThreshold |-> 75,
                                    debounceTime |-> 100,
                                    matchCooldown |-> 200]) >>

\* detect() of the pattern loop i on a frame of level rms
HistoryDetectWith(i, rms, similarity) ==
    /\ i \in DOMAIN loops
    /\ loops[i].kind = "pattern"
    /\ loops[i].pending > 0
    /\ IF ~isListening
       THEN /\ loops' = [loops EXCEPT ![i].pending = @ - 1]
            /\ UNCHANGED <<count, lastScore>>
       ELSE LET recentEnergies == PushEnergy(loops[i].recentEnergies, rms)
                r == PatternBody(loops[i].st, rms,
                                 IsTransitioning(recentEnergies), similarity, clock)
            IN
            /\ loops' = [loops EXCEPT ![i].st = r.st,
                                      ![i].pending = @ - 1 + r.sched,
                                      ![i].passRun = PassRun(@, r.st, similarity),
                                      ![i].recentEnergies = recentEnergies]
            /\ OnMatch(r)
    /\ UNCHANGED <<clock, isListening, app, scorer, utils>>

\* the microphone level changes at most every LevelHold frames
HistoryDetect(i) ==
    /\ loops[i].kind = "pattern"
    /\ isListening => loops[i].st.frameCount < MaxHistoryFrames
    /\ \E rms \in HistoryRmsLevels, similarity \in HistoryScores :
         /\ loops[i].st.frameCount % LevelHold # 0
              => rms = loops[i].recentEnergies[Len(loops[i].recentEnergies)]
         /\ HistoryDetectWith(i, rms, similarity)

NextHistory ==
    \/ HistoryDetect(1)
    \/ CooldownTimer(1)
    \/ TickPattern
    \/ SetListening

SpecHistory == InitHistory /\ [][NextHistory]_vars

\* C32: on a frame that is not a check (frame count not a multiple of 10, or
\* RMS at or below the minimum activity threshold, or a transition flagged)
\* the pattern detector only writes the frame to the ring buffer and pushes
\* its RMS on the history: matchStreak, inCooldown, lastMatchTime and the
\* pending timers are unchanged, no MatchEvent is emitted and the next
\* frame is requested.
C32_GatedFrame ==
    [][\A rms \in HistoryRmsLevels, similarity \in HistoryScores :
         LET st == loops[1].st
             recentEnergies == PushEnergy(loops[1].recentEnergies, rms)
         IN
         (/\ HistoryDetectWith(1, rms, similarity)
          /\ isListening
          /\ \/ (st.frameCount + 1) % 10 # 0
             \/ rms <= (IF st.isMobile THEN 20 ELSE 50)
             \/ IsTransitioning(recentEnergies))
         => /\ loops'[1].st =
                 [st EXCEPT
                    !.slidingBuffer = WriteSamples(st.slidingBuffer, st.bufferIndex,
                                        FrameSamples(st.bufferIndex, st.frameLen),
                                        windowSamples(st.templateLen)),
                    !.bufferIndex = @ + st.frameLen,
                    !.frameCount = @ + 1,
                    !.segment = << >>]
            /\ loops'[1].recentEnergies = recentEnergies
            /\ loops'[1].pending = loops[1].pending
            /\ count' = count
            /\ lastScore' = lastScore]_vars

\* a frame gated by the transition flag alone while a streak is running, and
\* a gated frame during the cooldown
C32_Witness ==
    /\ isListening
    /\ loops[1].kind = "pattern"
    /\ loops[1].st.frameCount > 0
    /\ loops[1].st.frameCount % 10 = 0
    /\ "recentEnergies" \in DOMAIN loops[1]
    /\ IsTransitioning(loops[1].recentEnergies)
    /\ loops[1].recentEnergies[Len(loops[1].recentEnergies)]
         > minEnergyThreshold(loops[1].st.isMobile)
    /\ loops[1].st.matchStreak > 0
    /\ loops[1].st.segment = << >>

\* C33 (as stated): the RMS history holds the last 20 frames at most, and a
\* frame is flagged as a transition exactly when the history holds at least
\* 10 values and the frame's own RMS is more than 30% of the recent maximum
\* below that maximum; no frame is flagged with fewer than 10 values or a
\* recent maximum of 0, nor when its RMS is itself the recent maximum.
C33_TransitionFlag ==
    [][\A rms \in HistoryRmsLevels, similarity \in HistoryScores :
         (/\ HistoryDetectWith(1, rms, similarity)
          /\ isListening)
         => LET before    == loops[1].recentEnergies
                history   == loops'[1].recentEnergies
                recentMax == ArrMax(history)
                flagged   == IsTransitioning(history)
            IN  /\ Len(history) <= 20
                /\ Len(history) = Min(Len(before) + 1, 20)
                /\ history = SubSeq(Append(before, rms),
                                    Len(before) + 2 - Len(history),
                                    Len(before) + 1)
                /\ flagged <=> /\ Len(history) >= 10
                               /\ recentMax > 0
                               /\ 10 * (recentMax - rms) > 3 * recentMax
                /\ Len(history) < 10 => ~flagged
                /\ recentMax = 0 => ~flagged
                /\ rms = recentMax => ~flagged]_vars

\* C34: the energy detector leaves 'chanting' only by counting: a step goes
\* from 'chanting' to 'waiting' exactly when it emits one MatchEvent;
\* chantStartTime is stamped on entry into 'chanting' and kept until that
\* match, so after a loud burst shorter than 500 ms any run of quiet frames
\* leaves the detector in 'chanting' with the same stamps, and the chant
\* that is eventually counted is measured from the first burst's start.
C34_ExitOnlyByCounting ==
    [][\A rms \in RmsLevels :
         (/\ EnergyDetectWith(1, rms)
          /\ isListening)
         => LET st  == loops[1].st
                st2 == loops'[1].st
            IN  /\ (st.state = "chanting" /\ st2.state = "waiting")
                     <=> count' = count + 1
                /\ count' # count => count' = count + 1
                /\ (st.state = "waiting" /\ st2.state = "chanting")
                     => st2.chantStartTime = clock
                /\ (st.state = "chanting" /\ st2.state = "chanting")
                     => st2.chantStartTime = st.chantStartTime
                /\ (/\ st.state = "chanting"
                    /\ st.silenceStartTime > 0
                    /\ st.silenceStartTime - st.chantStartTime < 500
                    /\ rms <= transitionThreshold(st.isMobile))
                     => st2 = [st EXCEPT !.rms = rms]
                /\ count' = count + 1
                     => /\ st.chantStartTime > 0
                        /\ clock - st.chantStartTime >= 500 + 600]_vars

\* a burst shorter than 500 ms followed by more than 600 ms of silence: the
\* detector is still in 'chanting', nothing was counted
C34_Witness ==
    /\ isListening
    /\ loops[1].kind = "energy"
    /\ loops[1].st.state = "chanting"
    /\ loops[1].st.silenceStartTime > 0
    /\ loops[1].st.silenceStartTime - loops[1].st.chantStartTime < 500
    /\ clock - loops[1].st.silenceStartTime >= 600
    /\ loops[1].st.rms <= silenceThreshold(loops[1].st.isMobile)
    /\ count = 0

(***************************************************************************)
(* An energy session long enough for two matches                            *)
(***************************************************************************)
SpacingMaxTime == 3200

TickSpacing ==
    /\ loops[1].kind = "energy"
    /\ clock + TickMs <= StartTime + SpacingMaxTime
    /\ clock' = clock + TickMs
    /\ UNCHANGED <<isListening, count, lastScore, loops, app, scorer, utils>>

NextSpacing ==
    \/ EnergyDetect(1)
    \/ TickSpacing
    \/ SetListening

SpecSpacing == InitEnergy /\ [][NextSpacing]_vars

\* C35: two consecutive MatchEvents of one energy session are at least
\* 1900 ms apart (800 ms debounce + 500 ms chant + 600 ms silence), whatever
\* the frames.
C35_MinSpacing ==
    [][\A rms \in RmsLevels :
         (/\ EnergyDetectWith(1, rms)
          /\ count' = count + 1)
         => /\ loops'[1].st.lastCountTime = clock
            /\ loops[1].st.lastCountTime > 0
                 => clock - loops[1].st.lastCountTime >= 800 + 500 + 600]_vars

\* the second match of a session has just been emitted
C35_Witness ==
    /\ loops[1].kind = "energy"
    /\ count = 2
    /\ loops[1].st.lastCountTime = clock
    /\ loops[1].st.state = "waiting"

\* C36: in every reachable state of an energy session hasHadLoudSound is
\* true when state is 'chanting' and false when it is 'waiting', and
\* chantStartTime and silenceStartTime are 0 when state is 'waiting'; hence
\* the completion test decides as it would without its loud-sample conjunct.
C36_LoudFlag ==
    \A i \in DOMAIN loops :
       loops[i].kind = "energy"
       => LET st == loops[i].st IN
          /\ st.state \in {"waiting", "chanting"}
          /\ st.state = "chanting" => st.hasHadLoudSound
          /\ st.state = "waiting"
               => /\ ~st.hasHadLoudSound
                  /\ st.chantStartTime = 0
                  /\ st.silenceStartTime = 0
          /\ st.state = "chanting"
               => LET silenceStart == SilenceStart(st, clock) IN
                  (/\ clock - silenceStart >= 600
                   /\ silenceStart - st.chantStartTime >= 500)
                  => ChantCompleted(st, silenceStart, clock)

\* a second chant after a counted one
C36_Witness ==
    /\ loops[1].kind = "energy"
    /\ count = 1
    /\ loops[1].st.state = "chanting"
    /\ loops[1].st.hasHadLoudSound
    /\ loops[1].st.chantStartTime > loops[1].st.lastCountTime

\* C37: with matchCooldown > debounceTime the debounce condition holds
\* whenever the pattern detector is outside cooldown, so the streak is below
\* minMatchStreak after every step; a passing check that lifts the streak to
\* minMatchStreak or beyond without emitting happens only while
\* now - lastMatchTime <= debounceTime outside cooldown, hence only with
\* matchCooldown <= debounceTime, and it adds one to the streak.
C37_StreakBound ==
    [][LET st  == loops[1].st
           st2 == loops'[1].st
       IN
       /\ st.settings.matchCooldown > st.settings.debounceTime
            => /\ ~st.inCooldown
                    => clock - st.lastMatchTime > st.settings.debounceTime
               /\ st.matchStreak < minMatchStreak(st.isMobile)
               /\ st2.matchStreak < minMatchStreak(st.isMobile)
       /\ \A rms \in PatternRmsLevels, isTransitioning \in BOOLEAN,
             similarity \in Scores :
            (/\ PatternDetectWith(1, rms, isTransitioning, similarity)
             /\ count' = count
             /\ st2.matchStreak >= minMatchStreak(st.isMobile)
             /\ st2.matchStreak > st.matchStreak)
            => /\ st.settings.matchCooldown <= st.settings.debounceTime
               /\ ~st.inCooldown
               /\ clock - st.lastMatchTime <= st.settings.debounceTime
               /\ similarity >= st.settings.similarityThreshold
               /\ st2.matchStreak = st.matchStreak + 1]_vars

\* matchCooldown < debounceTime: the streak has grown past minMatchStreak
\* with the last match still inside the debounce window
C37_Witness ==
    /\ loops[1].kind = "pattern"
    /\ loops[1].st.settings.matchCooldown < loops[1].st.settings.debounceTime
    /\ loops[1].st.matchStreak > minMatchStreak(loops[1].st.isMobile)
    /\ ~loops[1].st.inCooldown
    /\ count = 1

(***************************************************************************)
(* The scorer called on a pair of envelopes in both orders                  *)
(***************************************************************************)
InitSymmetry ==
    /\ clock = StartTime
    /\ isListening = FALSE
    /\ count = 0
    /\ lastScore = -1
    /\ loops = << >>
    /\ app = NoApp
    /\ utils = NoUtils
    /\ \E ua \in BOOLEAN, e1 \in Envelopes, e2 \in Envelopes :
         scorer = [ uaMobile  |-> ua,
                    touch     |-> FALSE,
                    narrow    |-> FALSE,
                    envelope1 |-> e1,
                    envelope2 |-> e2,
                    calls     |-> 0,
                    first     |-> [error |-> "none"],
                    last      |-> [error |-> "none"] ]

\* computeSimilarity(envelope1, envelope2), then
\* computeSimilarity(envelope2, envelope1)
CallBothOrders ==
    /\ scorer.calls = 0
    /\ scorer' = [scorer EXCEPT
          !.calls = 2,
          !.first = computeSimilarity(scorer.envelope1, scorer.envelope2,
                                      isMobileDevice(scorer)),
          !.last  = computeSimilarity(scorer.envelope2, scorer.envelope1,
                                      isMobileDevice(scorer))]
    /\ UNCHANGED <<clock, isListening, count, lastScore, loops, app, utils>>

NextSymmetry == CallBothOrders

SpecSymmetry == InitSymmetry /\ [][NextSymmetry]_vars

\* x = y for two fractions
EqFrac(x, y) ==
    /\ LeqFrac(x.num, x.den, y.num, y.den)
    /\ LeqFrac(y.num, y.den, x.num, x.den)

\* C38: for all envelopes A and B of non-negative values,
\* computeSimilarity(A, B) = computeSimilarity(B, A): the same branch is
\* taken and the same energy ratio and cosine enter the score, whichever
\* envelope's mean is 0.
C38_Symmetry ==
    scorer.calls = 2
    => /\ scorer.first.error = scorer.last.error
       /\ EqFrac(scorer.first.similarity.a, scorer.last.similarity.a)
       /\ EqFrac(scorer.first.similarity.b, scorer.last.similarity.b)
       /\ scorer.first.error = ""
            => /\ EqFrac(scorer.first.energyRatio, scorer.last.energyRatio)
               /\ EqFrac(scorer.first.cosine, scorer.last.cosine)

\* an all-zero envelope against one that is not, scored in both orders
C38_Witness ==
    /\ scorer.calls = 2
    /\ scorer.envelope1 = <<0, 0, 0>>
    /\ scorer.envelope2 = <<0, 1, 5, 1>>
    /\ scorer.first.error = ""
    /\ scorer.first.energyRatio.num = 0

(***************************************************************************)
(* The silence trimmer applied to a buffer and then to its own output       *)
(***************************************************************************)
\* AudioUtils.trimSilence(trimmed.data, sampleRate) is called on the result
CallTrimAgain ==
    /\ utils.fn = "trimSilence"
    /\ utils' = [utils EXCEPT !.fn = "trimSilenceAgain"] @@
                [again |-> trimSilence(SliceData(utils.audioData, utils.result.data),
                                       utils.sampleRate, defaultThreshold)]
    /\ UNCHANGED <<clock, isListening, count, lastScore, loops, app, scorer>>

NextRetrim ==
    \/ CallTrimSilence
    \/ CallTrimAgain

SpecRetrim == InitTrimmer /\ [][NextRetrim]_vars

\* C39: for a non-empty buffer the trimmed buffer is a non-empty contiguous
\* slice of the input that holds in full every window whose RMS is above the
\* threshold, every window cut or removed has an RMS at or below it, and
\* trimSilence applied to the trimmed buffer returns all of it.
C39_KeepsActiveAudio ==
    (utils.fn \in {"trimSilence", "trimSilenceAgain"} /\ utils.audioData.length > 0)
    => LET audioData == utils.audioData
           trimmed   == utils.result.data
           WindowEnd(k) == Min(audioData.length, WindowIndex(k) + windowSize)
       IN  /\ 0 <= trimmed.from
           /\ trimmed.from < trimmed.to
           /\ trimmed.to <= audioData.length
           /\ \A k \in 1..WindowCount(audioData.length) :
                /\ audioData.rms[k] > defaultThreshold
                     => /\ trimmed.from <= WindowIndex(k)
                        /\ WindowEnd(k) <= trimmed.to
                /\ (WindowIndex(k) < trimmed.from \/ trimmed.to < WindowEnd(k))
                     => audioData.rms[k] <= defaultThreshold
           /\ utils.fn = "trimSilenceAgain"
                => /\ utils.again.data.from = 0
                   /\ utils.again.data.to = SliceLength(trimmed)
                   /\ SliceLength(utils.again.data) = SliceLength(trimmed)

\* a buffer trimmed at both ends around its loud window, with a window at
\* the threshold among those removed, and trimmed again
C39_Witness ==
    /\ utils.fn = "trimSilenceAgain"
    /\ utils.result.data.from > 0
    /\ utils.result.data.to < utils.audioData.length
    /\ Above(utils.audioData, defaultThreshold) # {}
    /\ utils.audioData.rms[1] = defaultThreshold

=============================================================================
